---- MODULE Spec2Model ----
(***************************************************************************)
(* A model of CTDopts (src/CTDopts/CTDopts.py, Python 2): the parameter    *)
(* tree of a CTDModel, the nested-dictionary helpers, validate_args, the   *)
(* CTD document writer and the two document readers.                       *)
(*                                                                         *)
(* Python values are tagged pairs <<tag, payload>>:                        *)
(*   <<"none", 0>>  <<"bool", b>>  <<"int", n>>  <<"float", t>> (t tenths) *)
(*   <<"str", s>>   <<"list", seq>>  <<"dict", f>>  <<"ref", id>>          *)
(* A <<"dict", f>> is a mapping written as a literal (f maps keys to       *)
(* values); a <<"ref", id>> is a mapping object living in the heap, so     *)
(* that two places can hold the same object and an assignment through one  *)
(* is seen through the other, as in Python.                                *)
(***************************************************************************)
EXTENDS Integers, Sequences, FiniteSets, TLC

VARIABLES
    nodes,      \* the CTDModel's objects: ParameterGroup and Parameter records; node 1 is model.parameters
    heap,       \* the mapping objects of the argument dictionaries
    pc,         \* what the program did last
    call,       \* the last validate_args call: its arguments and its outcome
    prev,       \* the validate_args call before it (NoCall when there is none)
    overlay,    \* the arg_dict handed to write_ctd (None when there was none)
    doc,        \* the document write_ctd wrote, or the exception it raised
    extracted,  \* what args_from_file returned for doc, or the exception it raised
    loaded,     \* the objects of the CTDModel(from_file=doc), or the exception raised
    cl,         \* the last parse_cl_args call: the command line and its outcome
    directives, \* the last parse_cl_directives call: the command line and its outcome
    merged,     \* the last override_args call: the dictionaries and its outcome
    default_args, \* what get_defaults returned for the model
    made,       \* the last Parameter(...) constructor call: the arguments and its outcome
    checked,    \* the last restrictions.check(value) call: restriction, value and outcome
    listed,     \* what list_parameters returned last: the handles of the Parameter objects
    flat        \* the last flatten_dict calls on a dictionary: the dictionary and what they returned

\* the state of a model and of what was done with it
model_vars == <<nodes, heap, pc, call, prev, overlay, doc, extracted, loaded>>
\* the records of the calls that leave the model as it is
lib_vars == <<cl, directives, merged, default_args, made, checked, listed, flat>>

vars == <<model_vars, lib_vars>>

-----------------------------------------------------------------------------
(* Bounds *)

\* add/add_group calls on one model (objects beside the root group)
MaxNodes == 2
\* integers a string can spell: -MaxInt .. MaxInt
MaxInt == 6
\* fields a string splits into at a separator
MaxFields == 3
\* tokens on a command line
MaxTokens == 3
\* dictionaries handed to one override_args call
MaxDicts == 2
\* the ends of the numeric ranges checked: 0 .. MaxRange
MaxRange == 3
\* elements of a list a restriction checks
MaxList == 2
\* add/add_group calls on one model when names may be used again
MaxCalls == 3

-----------------------------------------------------------------------------
(* Python values *)

None == <<"none", 0>>
PyBool(b) == <<"bool", b>>
PyInt(n) == <<"int", n>>
PyFloat(t) == <<"float", t>>
PyStr(s) == <<"str", s>>
PyList(q) == <<"list", q>>
PyDict(f) == <<"dict", f>>
Ref(id) == <<"ref", id>>
EmptyMap == [k \in {} |-> None]

Tag(v) == v[1]
Val(v) == v[2]
IsMapping(v) == Tag(v) \in {"dict", "ref"}
IsNumber(v) == Tag(v) \in {"int", "float", "bool"}

\* the outcome of an expression: a value, or the exception it raised
Ok(v) == [exc |-> "", val |-> v]
Raise(e) == [exc |-> e, val |-> None]

Abs(n) == IF n < 0 THEN -n ELSE n

\* a number as tenths, for comparisons between int, bool and float
Tenths(v) ==
    CASE Tag(v) = "int" -> 10 * Val(v)
      [] Tag(v) = "bool" -> IF Val(v) THEN 10 ELSE 0
      [] Tag(v) = "float" -> Val(v)

\* Python's ==: numbers compare by value across int, float and bool
PyEq(a, b) ==
    IF IsNumber(a) /\ IsNumber(b) THEN Tenths(a) = Tenths(b) ELSE a = b

\* the rank CPython 2 gives a type when two values of different types are
\* ordered: None first, then numbers, then the others by type name
TypeRank(v) ==
    CASE Tag(v) = "none" -> 0
      [] IsNumber(v) -> 1
      [] Tag(v) \in {"dict", "ref"} -> 2
      [] Tag(v) = "list" -> 3
      [] Tag(v) = "str" -> 4

\* Python 2's a < b with b a number
PyLess(a, b) ==
    IF IsNumber(a) /\ IsNumber(b) THEN Tenths(a) < Tenths(b)
    ELSE TypeRank(a) < TypeRank(b)

\* Python's truth value, bool(x)
Truthy(v) ==
    CASE Tag(v) = "none" -> FALSE
      [] Tag(v) = "bool" -> Val(v)
      [] Tag(v) \in {"int", "float"} -> Val(v) # 0
      [] Tag(v) = "str" -> Val(v) # ""
      [] Tag(v) = "list" -> Val(v) # <<>>
      [] Tag(v) = "dict" -> DOMAIN Val(v) # {}
      [] Tag(v) = "ref" -> TRUE

-----------------------------------------------------------------------------
(* str(), int(), float() *)

IntStr(n) == ToString(n)

FloatStr(t) ==
    (IF t < 0 THEN "-" ELSE "") \o ToString(Abs(t) \div 10) \o "." \o ToString(Abs(t) % 10)

RECURSIVE JoinStr(_, _)
\* sep.join(q)
JoinStr(q, sep) ==
    IF q = <<>> THEN ""
    ELSE IF Len(q) = 1 THEN q[1]
    ELSE q[1] \o sep \o JoinStr(Tail(q), sep)

\* the pieces the strings split in the model are made of: none holds a
\* ',' or ':' 
SplitAtoms ==
    {"", "advanced", "a", "b", "in", "file", "in-file", "in_file", "*.txt", "*.gz"}
        \cup {ToString(n) : n \in 0..MaxInt}

\* the sequences of 2 to MaxFields pieces
PieceLists(atoms) == UNION {[1..n -> atoms] : n \in 2..MaxFields}

\* every string that holds a ',', a ':' or a '-', paired with its pieces
CommaJoined == {<<JoinStr(q, ","), q>> : q \in PieceLists(SplitAtoms)}
ColonJoined == {<<JoinStr(q, ":"), q>> : q \in PieceLists(SplitAtoms)}
HyphenJoined == {<<JoinStr(q, "-"), q>> : q \in PieceLists(SplitAtoms \ {"in-file"})}

\* the strings that hold sep
Joined(sep) ==
    CASE sep = "," -> CommaJoined
      [] sep = ":" -> ColonJoined
      [] sep = "-" -> HyphenJoined

\* the strings that hold a ',', a ':' or a '-'
CommaStrings == {p[1] : p \in CommaJoined}
ColonStrings == {p[1] : p \in ColonJoined}
HyphenStrings == {p[1] : p \in HyphenJoined}

\* sep in s
Contains(s, sep) ==
    CASE sep = "," -> s \in CommaStrings
      [] sep = ":" -> s \in ColonStrings
      [] sep = "-" -> s \in HyphenStrings

\* s.split(sep): the pieces that, joined by sep, give s
Split(s, sep) ==
    IF Contains(s, sep) THEN (CHOOSE p \in Joined(sep) : p[1] = s)[2] ELSE <<s>>

\* s.replace(old, new)
Replace(s, old, new) == JoinStr(Split(s, old), new)

RECURSIVE KeySeq(_)
\* the keys of a mapping in the order iteration yields them (Python 2 fixes
\* some order per key set; which one is not observable in what follows)
KeySeq(S) ==
    IF S = {} THEN <<>>
    ELSE LET k == CHOOSE x \in S : TRUE IN <<k>> \o KeySeq(S \ {k})

RECURSIVE Str(_)
\* repr(v): a string is quoted, anything else is as str() gives it
Repr(v) == IF Tag(v) = "str" THEN "'" \o Val(v) \o "'" ELSE Str(v)

\* str(v)
Str(v) ==
    CASE Tag(v) = "none" -> "None"
      [] Tag(v) = "bool" -> IF Val(v) THEN "True" ELSE "False"
      [] Tag(v) = "int" -> IntStr(Val(v))
      [] Tag(v) = "float" -> FloatStr(Val(v))
      [] Tag(v) = "str" -> Val(v)
      [] Tag(v) = "list" ->
            "[" \o JoinStr([i \in 1..Len(Val(v)) |-> Repr(Val(v)[i])], ", ") \o "]"
      [] Tag(v) = "dict" ->
            LET ks == KeySeq(DOMAIN Val(v))
            IN  "{" \o JoinStr([i \in 1..Len(ks) |->
                        "'" \o ks[i] \o "': " \o Repr(Val(v)[ks[i]])], ", ") \o "}"

IntLits == (0 - MaxInt)..MaxInt
FloatLits == (0 - 10 * MaxInt)..(10 * MaxInt)

\* int(v): a string must spell an integer; a float is truncated
IntCast(v) ==
    CASE Tag(v) = "int" -> Ok(v)
      [] Tag(v) = "bool" -> Ok(PyInt(IF Val(v) THEN 1 ELSE 0))
      [] Tag(v) = "float" ->
            Ok(PyInt(IF Val(v) < 0 THEN 0 - (Abs(Val(v)) \div 10) ELSE Val(v) \div 10))
      [] Tag(v) = "str" ->
            IF \E n \in IntLits : IntStr(n) = Val(v)
            THEN Ok(PyInt(CHOOSE n \in IntLits : IntStr(n) = Val(v)))
            ELSE Raise("ValueError")
      [] OTHER -> Raise("TypeError")

\* float(v): a string must spell a float or an integer
FloatCast(v) ==
    CASE Tag(v) = "float" -> Ok(v)
      [] Tag(v) \in {"int", "bool"} -> Ok(PyFloat(Tenths(v)))
      [] Tag(v) = "str" ->
            IF \E t \in FloatLits : FloatStr(t) = Val(v)
            THEN Ok(PyFloat(CHOOSE t \in FloatLits : FloatStr(t) = Val(v)))
            ELSE IF \E n \in IntLits : IntStr(n) = Val(v)
            THEN Ok(PyFloat(10 * (CHOOSE n \in IntLits : IntStr(n) = Val(v))))
            ELSE Raise("ValueError")
      [] OTHER -> Raise("TypeError")

\* the naive cast bool(x), under which bool('false') is True
NaiveBool(x) == PyBool(Truthy(x))

\* CAST_BOOLEAN: bool(x) for a non-string, membership in the three tokens for a string
CAST_BOOLEAN(x) ==
    IF Tag(x) # "str" THEN PyBool(Truthy(x))
    ELSE PyBool(Val(x) \in {"true", "True", "1"})

\* the Python type a CTD type token or a Python type stands for
CTDTYPE_TO_TYPE(t) ==
    CASE t \in {"int"} -> "int"
      [] t \in {"float", "double"} -> "float"
      [] t \in {"string", "str"} -> "str"
      [] t \in {"boolean", "bool"} -> "bool"
      [] t \in {"input-file", "_InFile"} -> "_InFile"
      [] t \in {"output-file", "_OutFile"} -> "_OutFile"
      [] OTHER -> "KeyError"

TYPE_TO_CTDTYPE(t) ==
    CASE t = "int" -> "int"
      [] t = "float" -> "float"
      [] t = "str" -> "string"
      [] t = "bool" -> "boolean"
      [] t = "_InFile" -> "input-file"
      [] t = "_OutFile" -> "output-file"

\* type(v): calling one of the six Python types on a value
TypeCall(type, v) ==
    CASE type = "int" -> IntCast(v)
      [] type = "float" -> FloatCast(v)
      [] type = "bool" -> Ok(PyBool(Truthy(v)))
      [] OTHER -> Ok(PyStr(Str(v)))

\* typecast(x), with typecast = param.type if param.type is not bool else CAST_BOOLEAN
Typecast(type, x) == IF type = "bool" THEN Ok(CAST_BOOLEAN(x)) ELSE TypeCall(type, x)

\* the characters of a string, as iterating over it yields them
Chars(s) ==
    CASE s = "" -> <<>>
      [] s = "abc" -> <<"a", "b", "c">>
      [] s = "-5" -> <<"-", "5">>
      [] s = "true" -> <<"t", "r", "u", "e">>
      [] s = "True" -> <<"T", "r", "u", "e">>
      [] s = "false" -> <<"f", "a", "l", "s", "e">>
      [] s = "this" -> <<"t", "h", "i", "s">>
      [] s = "that" -> <<"t", "h", "a", "t">>
      [] s = "other" -> <<"o", "t", "h", "e", "r">>
      [] s = "None" -> <<"N", "o", "n", "e">>
      [] OTHER -> <<s>>

-----------------------------------------------------------------------------
(* The heap of mapping objects, and the nested-key helpers *)

\* a new empty dict: the heap with the object appended
NewDict(h) == Append(h, EmptyMap)

\* d[k] = v on the mapping object id
Store(h, id, k, v) ==
    [h EXCEPT ![id] = [x \in DOMAIN h[id] \cup {k} |-> IF x = k THEN v ELSE h[id][x]]]

RECURSIVE AllocItems(_, _, _, _)
\* the items of the literal mapping f stored one by one into the object id,
\* an item that is a mapping itself becoming a fresh object first
AllocItems(h, id, f, ks) ==
    IF ks = <<>> THEN h
    ELSE LET v == f[ks[1]]
             sub == Len(h) + 1
         IN  IF Tag(v) = "dict"
             THEN AllocItems(Store(AllocItems(NewDict(h), sub, Val(v), KeySeq(DOMAIN Val(v))),
                                   id, ks[1], Ref(sub)),
                             id, f, Tail(ks))
             ELSE AllocItems(Store(h, id, ks[1], v), id, f, Tail(ks))

\* evaluating a literal: every mapping of it becomes a fresh heap object
Alloc(h, v) ==
    IF Tag(v) = "dict"
    THEN LET id == Len(h) + 1
         IN  [heap |-> AllocItems(NewDict(h), id, Val(v), KeySeq(DOMAIN Val(v))),
              val |-> Ref(id)]
    ELSE [heap |-> h, val |-> v]

RECURSIVE Deref(_, _)
\* the value v denotes in heap h, with every mapping object written out
Deref(h, v) ==
    CASE Tag(v) = "ref" ->
            PyDict([k \in DOMAIN h[Val(v)] |-> Deref(h, h[Val(v)][k])])
      [] Tag(v) = "dict" -> PyDict([k \in DOMAIN Val(v) |-> Deref(h, Val(v)[k])])
      [] OTHER -> v

\* res[key]
GetItem(h, res, key) ==
    IF Tag(res) = "ref"
    THEN IF key \in DOMAIN h[Val(res)] THEN Ok(h[Val(res)][key]) ELSE Raise("KeyError")
    ELSE Raise("TypeError")

RECURSIVE get_nested_key(_, _, _)
get_nested_key(h, arg_dict, key_list) ==
    IF key_list = <<>> THEN Ok(arg_dict)
    ELSE LET r == GetItem(h, arg_dict, key_list[1])
         IN  IF r.exc # "" THEN r ELSE get_nested_key(h, r.val, Tail(key_list))

RECURSIVE set_nested_key(_, _, _, _)
\* the heap after set_nested_key, or the exception it raised
set_nested_key(h, arg_dict, key_list, value) ==
    IF key_list = <<>> THEN [exc |-> "IndexError", heap |-> h]
    ELSE IF Tag(arg_dict) # "ref" THEN [exc |-> "TypeError", heap |-> h]
    ELSE IF Len(key_list) = 1
    THEN [exc |-> "", heap |-> Store(h, Val(arg_dict), key_list[1], value)]
    ELSE LET key == key_list[1]
             id == Val(arg_dict)
             h1 == IF key \in DOMAIN h[id] THEN h
                   ELSE Store(NewDict(h), id, key, Ref(Len(h) + 1))
         IN  set_nested_key(h1, h1[id][key], Tail(key_list), value)

-----------------------------------------------------------------------------
(* flatten_dict and override_args *)

RECURSIVE flattener(_, _, _)
\* the closure of flatten_dict: the <<keylist, value>> pairs it registers in
\* result for the mapping object subgroup reached through the keys level
flattener(h, subgroup, level) ==
    UNION {IF IsMapping(h[Val(subgroup)][key])
           THEN flattener(h, h[Val(subgroup)][key], Append(level, key))
           ELSE {<<Append(level, key), h[Val(subgroup)][key]>>} :
           key \in DOMAIN h[Val(subgroup)]}

\* flatten_dict(arg_dict): the dictionary from key tuples to values
flatten_dict(h, arg_dict) ==
    LET Result(pairs) ==
            [keylist \in {pr[1] : pr \in pairs} |->
                (CHOOSE pr \in pairs : pr[1] = keylist)[2]]
    IN  Result(flattener(h, arg_dict, <<>>))

\* flatten_dict(arg_dict, as_string=True): the keys joined with ':', order
\* being the order result yields its keys in; of two key tuples that join to
\* one string the later one leaves its value
flatten_dict_as_string(h, arg_dict, order) ==
    LET Joined1(result) ==
            [s \in {JoinStr(keylist, ":") : keylist \in DOMAIN result} |->
                result[order[CHOOSE i \in 1..Len(order) :
                                /\ JoinStr(order[i], ":") = s
                                /\ \A j \in (i + 1)..Len(order) : JoinStr(order[j], ":") # s]]]
    IN  Joined1(flatten_dict(h, arg_dict))

\* dict(chain(*(flatten_dict(d).iteritems() for d in arg_dicts))): a key
\* tuple gets the value of the last dictionary that has it
Chained(flats) ==
    LET Last(keylist) ==
            CHOOSE i \in 1..Len(flats) :
                /\ keylist \in DOMAIN flats[i]
                /\ \A j \in (i + 1)..Len(flats) : keylist \notin DOMAIN flats[j]
    IN  [keylist \in UNION {DOMAIN flats[i] : i \in 1..Len(flats)} |->
            flats[Last(keylist)][keylist]]

RECURSIVE SetAll(_, _, _, _)
\* for keylist, value in overridden_args.iteritems(): set_nested_key(result,
\* keylist, value), order being the order the dictionary yields its keys in
SetAll(h, result, overridden_args, order) ==
    LET Rest(st) ==
            IF st.exc # "" THEN st
            ELSE SetAll(st.heap, result, overridden_args, Tail(order))
    IN  IF order = <<>> THEN [exc |-> "", heap |-> h]
        ELSE Rest(set_nested_key(h, result, order[1], overridden_args[order[1]]))

\* the orders a dictionary with the keys S can yield them in
Orders(S) == {q \in [1..Cardinality(S) -> S] : \A i, j \in DOMAIN q : i # j => q[i] # q[j]}

\* override_args(*arg_dicts), the dictionaries being mapping objects of h
\* and order the iteration order of overridden_args: the heap after the
\* call and the dictionary returned, or the exception raised
override_args(h, arg_dicts, order) ==
    LET Built(st) ==
            IF st.exc # "" THEN [exc |-> st.exc, heap |-> st.heap, val |-> None]
            ELSE [exc |-> "", heap |-> st.heap, val |-> Ref(Len(h) + 1)]
    IN  Built(SetAll(NewDict(h), Ref(Len(h) + 1),
                     Chained([i \in 1..Len(arg_dicts) |-> flatten_dict(h, arg_dicts[i])]),
                     order))

-----------------------------------------------------------------------------
(* Iteration and map() *)

\* the elements a for loop over v yields (v written out, not a heap object)
Iter(v) ==
    CASE Tag(v) = "list" -> Ok(Val(v))
      [] Tag(v) = "str" -> Ok([i \in 1..Len(Chars(Val(v))) |-> PyStr(Chars(Val(v))[i])])
      [] Tag(v) = "dict" ->
            LET ks == KeySeq(DOMAIN Val(v)) IN Ok([i \in 1..Len(ks) |-> PyStr(ks[i])])
      [] OTHER -> Raise("TypeError")

\* the first index at which one of the outcomes rs is an exception, 0 when none is
FirstExc(rs) ==
    IF \E i \in 1..Len(rs) : rs[i].exc # ""
    THEN CHOOSE i \in 1..Len(rs) : rs[i].exc # "" /\ \A j \in 1..(i - 1) : rs[j].exc = ""
    ELSE 0

\* map(f, v) of Python 2, f being the type itself or validate_args' typecast
\* for it: a new list, or the first exception f or the iteration raises
MapPy(type, typecast, v) ==
    LET Collect(rs, bad) ==
            IF bad # 0 THEN Raise(rs[bad].exc)
            ELSE Ok(PyList([i \in 1..Len(rs) |-> rs[i].val]))
        Results(rs) == Collect(rs, FirstExc(rs))
        Over(it) ==
            IF it.exc # "" THEN it
            ELSE Results([i \in 1..Len(it.val) |->
                            IF typecast THEN Typecast(type, it.val[i])
                            ELSE TypeCall(type, it.val[i])])
    IN  Over(Iter(v))

-----------------------------------------------------------------------------
(* Restrictions *)

NoRestriction == [kind |-> "none", n_min |-> None, n_max |-> None, choices |-> <<>>, formats |-> <<>>]

\* _NumericRange.__init__: both bounds cast to the parameter's type
NumericRangeInit(n_type, n_min, n_max) ==
    LET Range(lo, hi) ==
            IF lo.exc # "" THEN lo
            ELSE IF hi.exc # "" THEN hi
            ELSE Ok([NoRestriction EXCEPT !.kind = "num_range", !.n_min = lo.val,
                                          !.n_max = hi.val])
    IN  Range(IF n_min = None THEN Ok(None) ELSE TypeCall(n_type, n_min),
              IF n_max = None THEN Ok(None) ELSE TypeCall(n_type, n_max))

\* _Choices.__init__ on a list of choices
ChoicesInit(choices) == [NoRestriction EXCEPT !.kind = "choices", !.choices = choices]

\* _FileFormat.__init__ on a list of formats
FileFormatInit(formats) == [NoRestriction EXCEPT !.kind = "file_formats", !.formats = formats]

\* x.replace('*.', '').strip() for a piece x of a formats string; the strings
\* of the model hold no blank and '*.' at the front only
FormatNames == {"txt", "gz", "fastq.gz"}
FormatIn(x) ==
    IF \E f \in FormatNames : x = "*." \o f
    THEN CHOOSE f \in FormatNames : x = "*." \o f
    ELSE x

\* _FileFormat.__init__ on what the caller gave: a string such as
\* '*.txt,*.gz' is split at ',' and each piece stripped, a list is kept
FileFormatOf(formats) ==
    LET Stripped(pieces) == [i \in 1..Len(pieces) |-> FormatIn(pieces[i])]
    IN  IF Tag(formats) = "str" THEN FileFormatInit(Stripped(Split(Val(formats), ",")))
        ELSE FileFormatInit([i \in 1..Len(Val(formats)) |-> Val(Val(formats)[i])])

\* s.endswith(suffix), for the file names of the model: a stem followed by the suffix
FileStems == {"a", "a.fastq", "b"}
EndsWith(s, suffix) == \E stem \in FileStems \cup {""} : stem \o suffix = s

\* _single_check with the bounds of a numeric range left out of the range
SingleCheckExclusive(r, value) ==
    CASE r.kind = "num_range" ->
            IF r.n_min # None /\ ~PyLess(r.n_min, value) THEN Ok(FALSE)
            ELSE IF r.n_max # None /\ ~PyLess(value, r.n_max) THEN Ok(FALSE)
            ELSE Ok(TRUE)
      [] r.kind = "choices" ->
            Ok(\E i \in 1..Len(r.choices) : PyEq(value, r.choices[i]))
      [] r.kind = "file_formats" ->
            IF Tag(value) # "str" THEN [exc |-> "AttributeError", val |-> FALSE]
            ELSE Ok(\E i \in 1..Len(r.formats) : EndsWith(Val(value), "." \o r.formats[i]))

\* _single_check of the three restriction classes
SingleCheck(r, value) ==
    CASE r.kind = "num_range" ->
            IF r.n_min # None /\ PyLess(value, r.n_min) THEN Ok(FALSE)
            ELSE IF r.n_max # None /\ PyLess(r.n_max, value) THEN Ok(FALSE)
            ELSE Ok(TRUE)
      [] r.kind = "choices" ->
            Ok(\E i \in 1..Len(r.choices) : PyEq(value, r.choices[i]))
      [] r.kind = "file_formats" ->
            IF Tag(value) # "str" THEN [exc |-> "AttributeError", val |-> FALSE]
            ELSE Ok(\E i \in 1..Len(r.formats) : EndsWith(Val(value), "." \o r.formats[i]))

\* _Restriction.check with any() for all(): one element that passes is enough
RestrictionCheckAny(r, value) ==
    LET Stop(rs) ==
            IF \E i \in 1..Len(rs) : rs[i].exc # "" \/ rs[i].val
            THEN rs[CHOOSE i \in 1..Len(rs) :
                        /\ rs[i].exc # "" \/ rs[i].val
                        /\ \A j \in 1..(i - 1) : rs[j].exc = "" /\ ~rs[j].val]
            ELSE Ok(FALSE)
    IN  IF Tag(value) = "list"
        THEN Stop([i \in 1..Len(Val(value)) |-> SingleCheck(r, Val(value)[i])])
        ELSE SingleCheck(r, value)

\* _Restriction.check: every element of a list, or the value itself
RestrictionCheck(r, value) ==
    LET Stop(rs) ==
            IF \E i \in 1..Len(rs) : rs[i].exc # "" \/ ~rs[i].val
            THEN rs[CHOOSE i \in 1..Len(rs) :
                        /\ rs[i].exc # "" \/ ~rs[i].val
                        /\ \A j \in 1..(i - 1) : rs[j].exc = "" /\ rs[j].val]
            ELSE Ok(TRUE)
    IN  IF Tag(value) = "list"
        THEN Stop([i \in 1..Len(Val(value)) |-> SingleCheck(r, Val(value)[i])])
        ELSE SingleCheck(r, value)

\* ctd_restriction_string of the three restriction classes
ctd_restriction_string(r) ==
    CASE r.kind = "num_range" ->
            Ok((IF r.n_min # None THEN Str(r.n_min) ELSE "") \o ":" \o
               (IF r.n_max # None THEN Str(r.n_max) ELSE ""))
      [] r.kind = "choices" ->
            IF \E i \in 1..Len(r.choices) : Tag(r.choices[i]) # "str"
            THEN Raise("TypeError")
            ELSE Ok(JoinStr([i \in 1..Len(r.choices) |-> Val(r.choices[i])], ","))
      [] r.kind = "file_formats" ->
            Ok(JoinStr([i \in 1..Len(r.formats) |-> "*." \o r.formats[i]], ","))

-----------------------------------------------------------------------------
(* Parameter and ParameterGroup objects.  nodes[i] is the object with      *)
(* handle i; parent = 0 is Python's None.  A group's parameters is its     *)
(* OrderedDict: a sequence of <<key, handle>> in insertion order.          *)

\* kwargs.get(key, dflt)
KwGet(kwargs, key, dflt) == IF key \in DOMAIN kwargs THEN kwargs[key] ELSE dflt

\* ParameterGroup.__init__
ParameterGroupInit(name, parent, description) ==
    [kind |-> "group", name |-> name, parent |-> parent, description |-> description,
     parameters |-> <<>>, type |-> "", tags |-> <<>>, required |-> FALSE,
     is_list |-> FALSE, advanced |-> FALSE, default |-> None,
     restrictions |-> NoRestriction]

\* Parameter._validate_numerical_defaults: the exception it raises, "" when none
validate_numerical_defaults(type, is_list, default) ==
    LET Errors(rs) ==
            IF \E i \in 1..Len(rs) : rs[i].exc \notin {"", "ValueError"} THEN "TypeError"
            ELSE IF \E i \in 1..Len(rs) : rs[i].exc = "ValueError" THEN "ModelParsingError"
            ELSE ""
        Each(it) ==
            IF it.exc # "" THEN it.exc
            ELSE Errors([i \in 1..Len(it.val) |-> TypeCall(type, it.val[i])])
    IN  IF default = None \/ type \notin {"int", "float"} THEN ""
        ELSE Each(IF is_list THEN Iter(default) ELSE Ok(<<default>>))

\* the restrictions Parameter.__init__ builds from num_range, choices or file_formats
RestrictionsInit(type, kwargs) ==
    LET Range(r) == IF r.exc = "ValueError" THEN Raise("ModelParsingError") ELSE r
        Vocabulary(m) == IF m.exc # "" THEN m ELSE Ok(ChoicesInit(Val(m.val)))
    IN
    IF "num_range" \in DOMAIN kwargs
    THEN Range(NumericRangeInit(type, kwargs["num_range"][1], kwargs["num_range"][2]))
    ELSE IF "choices" \in DOMAIN kwargs
    THEN Vocabulary(MapPy(type, FALSE, kwargs["choices"]))
    ELSE IF "file_formats" \in DOMAIN kwargs
    THEN Ok(FileFormatOf(kwargs["file_formats"]))
    ELSE Ok(NoRestriction)

\* Parameter.__init__, the part for booleans: never required, default False
BoolOverrides(p) ==
    IF p.type = "bool" THEN [p EXCEPT !.required = FALSE, !.default = PyBool(FALSE)] ELSE p

\* Parameter.__init__: the new object, or the exception the constructor raised
ParameterInit(name, parent, kwargs) ==
    LET Tags(given) ==
            IF Tag(given) = "str" THEN SelectSeq(Split(Val(given), ","), LAMBDA t : t # "")
            ELSE [i \in 1..Len(Val(given)) |-> Val(Val(given)[i])]
        Base(type, is_list) ==
            [ParameterGroupInit(name, parent, KwGet(kwargs, "description", None))
                EXCEPT !.kind = "param", !.type = type,
                       !.tags = Tags(KwGet(kwargs, "tags", PyList(<<>>))),
                       !.required = Val(CAST_BOOLEAN(KwGet(kwargs, "required", PyBool(FALSE)))),
                       !.is_list = is_list,
                       !.advanced = Val(CAST_BOOLEAN(KwGet(kwargs, "advanced", PyBool(FALSE))))]
        Finish(type, is_list, base, bad, cast, restr) ==
            IF type = "KeyError" THEN [exc |-> "UnsupportedTypeError", node |-> base]
            ELSE IF bad # "" THEN [exc |-> bad, node |-> base]
            ELSE IF cast.exc # "" THEN [exc |-> cast.exc, node |-> base]
            ELSE IF type = "bool" /\ is_list THEN [exc |-> "AssertionError", node |-> base]
            ELSE IF restr.exc # "" THEN [exc |-> restr.exc, node |-> base]
            ELSE [exc |-> "",
                  node |-> [BoolOverrides([base EXCEPT !.default = cast.val])
                                EXCEPT !.restrictions = restr.val]]
        Cast(type, is_list, default) ==
            IF default = None THEN Ok(None)
            ELSE IF is_list THEN MapPy(type, FALSE, default)
            ELSE TypeCall(type, default)
        Construct(type, is_list, given) ==
            Finish(type, is_list, Base(type, is_list),
                   validate_numerical_defaults(type, is_list, given),
                   Cast(type, is_list,
                        IF given = PyStr("") \/ (is_list /\ given = PyList(<<>>))
                        THEN None ELSE given),
                   RestrictionsInit(type, kwargs))
    IN  Construct(CTDTYPE_TO_TYPE(KwGet(kwargs, "type", "str")),
                  Val(CAST_BOOLEAN(KwGet(kwargs, "is_list", PyBool(FALSE)))),
                  KwGet(kwargs, "default", None))

\* the position of key in an OrderedDict, 0 when it is not a key
KeyIndex(od, key) ==
    IF \E i \in 1..Len(od) : od[i][1] = key
    THEN CHOOSE i \in 1..Len(od) : od[i][1] = key
    ELSE 0

\* a list of pairs for the OrderedDict: a key already there is added again
OrderedAppend(od, key, id) == Append(od, <<key, id>>)

\* od[key] = id: a new key goes last, an old key keeps its place
OrderedSet(od, key, id) ==
    IF KeyIndex(od, key) = 0 THEN Append(od, <<key, id>>)
    ELSE [od EXCEPT ![KeyIndex(od, key)] = <<key, id>>]

\* self.parameters[name] = obj on group g, obj a new object
Register(ns, g, name, obj) ==
    [Append(ns, obj) EXCEPT ![g].parameters = OrderedSet(ns[g].parameters, name, Len(ns) + 1)]

\* ParameterGroup.add: the objects after the call, or the constructor's exception
add(ns, g, name, kwargs) ==
    LET Registered(p) ==
            IF p.exc # "" THEN [exc |-> p.exc, nodes |-> ns]
            ELSE [exc |-> "", nodes |-> Register(ns, g, name, p.node)]
    IN  Registered(ParameterInit(name, g, kwargs))

\* ParameterGroup.add_group
add_group(ns, g, name, description) ==
    Register(ns, g, name, ParameterGroupInit(name, g, description))

RECURSIVE ChildrenOf(_, _)
\* the loop of _get_children over the OrderedDict's values, a group among
\* them giving its own _get_children()
ChildrenOf(ns, od) ==
    IF od = <<>> THEN <<>>
    ELSE LET child == od[1][2]
         IN  (IF ns[child].kind = "param" THEN <<child>>
              ELSE ChildrenOf(ns, ns[child].parameters))
             \o ChildrenOf(ns, Tail(od))

\* ParameterGroup._get_children: the Parameter objects below group g, in order
get_children(ns, g) == ChildrenOf(ns, ns[g].parameters)

\* the Parameter objects below the root in the order they were made
ListedAsMade(ns) ==
    SelectSeq([i \in 1..Len(ns) |-> i],
              LAMBDA i : \E k \in 1..Len(get_children(ns, 1)) : get_children(ns, 1)[k] = i)

\* CTDModel.list_parameters
list_parameters(ns) == get_children(ns, 1)

RECURSIVE LineageUp(_, _)
\* the loop of get_lineage: names from object i upwards, while i.parent is not None
LineageUp(ns, i) ==
    IF ns[i].parent = 0 THEN <<>> ELSE <<ns[i].name>> \o LineageUp(ns, ns[i].parent)

Reverse(q) == [i \in 1..Len(q) |-> q[Len(q) + 1 - i]]

\* Parameter.get_lineage(name_only=True)
get_lineage(ns, i) == Reverse(LineageUp(ns, i))

\* ':'.join(lineage)
param_name(ns, i) == JoinStr(get_lineage(ns, i), ":")

-----------------------------------------------------------------------------
(* CTDModel.validate_args *)

Warning(kind, name, value) == [kind |-> kind, name |-> name, value |-> value]

\* what one pass of the loop body leaves: the heap, the warnings issued so
\* far, and the exception that left the loop ("" when the pass completed)
Pass(h, ws, exc, value) == [heap |-> h, warnings |-> ws, exc |-> exc, value |-> value]

\* map(typecast, arg) if param.is_list else typecast(arg); a mapping object
\* is read where it lives
Coerce(h, prm, arg) ==
    IF prm.is_list THEN MapPy(prm.type, TRUE, Deref(h, arg))
    ELSE Typecast(prm.type, Deref(h, arg))

\* validate_args filling the caller's dictionary instead of a new one
ReuseArgsDict(h, args_dict) == [heap |-> h, ref |-> args_dict]

\* validated_args = {}: the dictionary validate_args fills is a new, empty one
NewValidatedArgs(h, args_dict) == [heap |-> NewDict(h), ref |-> Ref(Len(h) + 1)]

\* validate_args raising at enforce_required=1 as it does at 2
MissingRaisesOnWarn(ns, h, ws, out, p, enforce_required) ==
    LET lineage == get_lineage(ns, p)
    IN  IF ns[p].required
        THEN IF enforce_required = 0 THEN Pass(h, ws, "", None)
             ELSE Pass(h, ws, "ArgumentMissingError", None)
        ELSE LET st == set_nested_key(h, out, lineage, ns[p].default)
             IN  Pass(st.heap, ws, st.exc, None)

\* the except KeyError branch: the argument was not found
Missing(ns, h, ws, out, p, enforce_required) ==
    LET lineage == get_lineage(ns, p)
    IN  IF ns[p].required
        THEN IF enforce_required = 0 THEN Pass(h, ws, "", None)
             ELSE IF enforce_required = 1
             THEN Pass(h, Append(ws, Warning("required", JoinStr(lineage, ":"), None)), "", None)
             ELSE Pass(h, ws, "ArgumentMissingError", None)
        ELSE LET st == set_nested_key(h, out, lineage, ns[p].default)
             IN  Pass(st.heap, ws, st.exc, None)

\* the try branch once the argument arg was found: c is the outcome of the
\* cast, chk of restrictions.check when it is called, rs of
\* ctd_restriction_string()
Found(ns, h, ws, out, p, arg, enforce_type, enforce_restrictions) ==
    LET lineage == get_lineage(ns, p)
        name == JoinStr(lineage, ":")
        prm == ns[p]
        Store1(ws2, validated_value) ==
            LET Stored(st) == Pass(st.heap, ws2, st.exc, validated_value)
            IN  Stored(set_nested_key(h, out, lineage, validated_value))
        Restrict(ws1, validated_value, chk, rs) ==
            IF chk.exc # "" THEN Pass(h, ws1, chk.exc, validated_value)
            ELSE IF ~chk.val /\ enforce_restrictions = 1 /\ rs.exc # ""
            THEN Pass(h, ws1, rs.exc, validated_value)
            ELSE IF ~chk.val /\ enforce_restrictions # 1
            THEN Pass(h, ws1, "ArgumentRestrictionError", validated_value)
            ELSE IF ~chk.val
            THEN Store1(Append(ws1, Warning("restriction", name, validated_value)),
                        validated_value)
            ELSE Store1(ws1, validated_value)
        Checked(ws1, validated_value) ==
            Restrict(ws1, validated_value,
                     IF enforce_restrictions # 0 /\ prm.restrictions.kind # "none"
                     THEN RestrictionCheck(prm.restrictions, validated_value)
                     ELSE Ok(TRUE),
                     ctd_restriction_string(prm.restrictions))
        Cast(c) ==
            IF c.exc \notin {"", "ValueError"} THEN Pass(h, ws, c.exc, arg)
            ELSE IF c.exc = "" THEN Checked(ws, c.val)
            ELSE IF enforce_type = 0 THEN Checked(ws, arg)
            ELSE IF enforce_type = 1 THEN Checked(Append(ws, Warning("type", name, arg)), arg)
            ELSE Pass(h, ws, "ArgumentTypeError", arg)
    IN  Cast(Coerce(h, prm, arg))

\* the body of the loop for parameter p
LoopBody(ns, h, ws, args_dict, out, p, levels) ==
    LET Tried(f) ==
            IF f.exc = "KeyError" THEN Missing(ns, f.heap, f.warnings, out, p, levels[1])
            ELSE f
        Looked(g) ==
            IF g.exc = "KeyError" THEN Missing(ns, h, ws, out, p, levels[1])
            ELSE IF g.exc # "" THEN Pass(h, ws, g.exc, None)
            ELSE Tried(Found(ns, h, ws, out, p, g.val, levels[2], levels[3]))
    IN  Looked(get_nested_key(h, args_dict, get_lineage(ns, p)))

RECURSIVE Loop(_, _, _, _, _, _, _, _)
\* for param in all_params, from position i on
Loop(ns, h, ws, args_dict, out, all_params, i, levels) ==
    LET Done(b) ==
            IF b.exc # ""
            THEN [status |-> b.exc, at |-> i, param |-> all_params[i],
                  param_name |->
                        IF b.exc \in {"ArgumentMissingError", "ArgumentTypeError",
                                      "ArgumentRestrictionError"}
                        THEN param_name(ns, all_params[i]) ELSE "",
                  value |-> b.value, out |-> None, warnings |-> b.warnings,
                  heap |-> b.heap]
            ELSE Loop(ns, b.heap, b.warnings, args_dict, out, all_params, i + 1, levels)
    IN  IF i > Len(all_params)
        THEN [status |-> "returned", at |-> 0, param |-> 0, param_name |-> "",
              value |-> None, out |-> out, warnings |-> ws, heap |-> h]
        ELSE Done(LoopBody(ns, h, ws, args_dict, out, all_params[i], levels))

\* CTDModel.validate_args(args_dict, enforce_required, enforce_type,
\* enforce_restrictions), levels being the three enforcement levels
validate_args(ns, h, args_dict, levels) ==
    LET Run(v) == Loop(ns, v.heap, <<>>, args_dict, v.ref, list_parameters(ns), 1, levels)
    IN  Run(NewValidatedArgs(h, args_dict))

-----------------------------------------------------------------------------
(* CTDModel.get_defaults *)

RECURSIVE DefaultsOfAll(_, _, _, _)
\* get_defaults storing the default of every parameter, None included
DefaultsOfAll(ns, h, defaults, i) ==
    LET ps == list_parameters(ns)
    IN  IF i > Len(ps) THEN h
        ELSE DefaultsOfAll(ns, set_nested_key(h, defaults, get_lineage(ns, ps[i]),
                                              ns[ps[i]].default).heap, defaults, i + 1)

RECURSIVE DefaultsFrom(_, _, _, _)
\* the loop of get_defaults over the parameters with a default, from position i on
DefaultsFrom(ns, h, defaults, i) ==
    LET ps == SelectSeq(list_parameters(ns), LAMBDA p : ns[p].default # None)
    IN  IF i > Len(ps) THEN h
        ELSE DefaultsFrom(ns, set_nested_key(h, defaults, get_lineage(ns, ps[i]),
                                             ns[ps[i]].default).heap, defaults, i + 1)

\* CTDModel.get_defaults, the dictionary written out
get_defaults(ns) == Deref(DefaultsFrom(ns, NewDict(<<>>), Ref(1), 1), Ref(1))

-----------------------------------------------------------------------------
(* The CTD document: elements with a tag, string attributes and children.  *)
(* write_ctd serializes the element tree and the readers parse it; the     *)
(* attributes are strings when the tree is built (str(value), 'true' and   *)
(* 'false', joined lists), and a reader gets the elements back with the    *)
(* attributes it was written with.                                         *)

ToolName == "tool"
ToolVersion == "1.0"

Element(tag, attrib, children) == [tag |-> tag, attrib |-> attrib, children |-> children]
\* what find() returns when there is no such child
NoElement == Element("", <<>>, <<>>)

\* element.find(tag): the first child with the tag
Find(el, tag) ==
    IF \E i \in 1..Len(el.children) : el.children[i].tag = tag
    THEN el.children[CHOOSE i \in 1..Len(el.children) :
                        /\ el.children[i].tag = tag
                        /\ \A j \in 1..(i - 1) : el.children[j].tag # tag]
    ELSE NoElement

\* Parameter._xml_node: the ITEM or ITEMLIST of parameter p, or the exception raised
ParameterXmlNode(ns, p, h, arg_dict) ==
    LET prm == ns[p]
        g == IF arg_dict # None THEN get_nested_key(h, arg_dict, get_lineage(ns, p))
             ELSE Ok(prm.default)
        value == IF g.exc = "KeyError" THEN prm.default ELSE Deref(h, g.val)
        a_value == IF prm.is_list THEN <<>>
                   ELSE IF prm.type = "bool"
                   THEN "value" :> (IF Truthy(value) THEN "true" ELSE "false")
                   ELSE "value" :> (IF value = None THEN "" ELSE Str(value))
        a_descr == IF prm.description # None /\ Truthy(prm.description)
                   THEN "description" :> Val(prm.description) ELSE <<>>
        a_tags == IF prm.tags # <<>> THEN "tags" :> JoinStr(prm.tags, ",") ELSE <<>>
        rs == IF prm.restrictions.kind = "none" THEN Ok("")
              ELSE ctd_restriction_string(prm.restrictions)
        a_restr == IF prm.restrictions.kind \in {"choices", "num_range"}
                   THEN "restrictions" :> rs.val
                   ELSE IF prm.restrictions.kind = "file_formats"
                   THEN "supported_formats" :> rs.val
                   ELSE <<>>
        attribs == ("name" :> prm.name) @@ a_value @@ ("type" :> TYPE_TO_CTDTYPE(prm.type))
                        @@ a_descr @@ a_tags @@ a_restr
        it == IF value = None THEN Ok(<<>>) ELSE Iter(value)
    IN  IF g.exc \notin {"", "KeyError"} THEN [exc |-> g.exc, el |-> NoElement]
        ELSE IF rs.exc # "" THEN [exc |-> rs.exc, el |-> NoElement]
        ELSE IF ~prm.is_list THEN [exc |-> "", el |-> Element("ITEM", attribs, <<>>)]
        ELSE IF it.exc # "" THEN [exc |-> it.exc, el |-> NoElement]
        ELSE [exc |-> "",
              el |-> Element("ITEMLIST", attribs,
                        [i \in 1..Len(it.val) |->
                            Element("LISTITEM", "value" :> Str(it.val[i]), <<>>)])]

RECURSIVE xml_node(_, _, _, _)
\* ParameterGroup._xml_node for a group, Parameter._xml_node for a parameter
xml_node(ns, i, h, arg_dict) ==
    IF ns[i].kind = "param" THEN ParameterXmlNode(ns, i, h, arg_dict)
    ELSE LET od == ns[i].parameters
             cs == [k \in 1..Len(od) |-> xml_node(ns, od[k][2], h, arg_dict)]
             bad == FirstExc(cs)
             attribs == ("name" :> ns[i].name) @@
                        (IF ns[i].description # None /\ Truthy(ns[i].description)
                         THEN "description" :> Val(ns[i].description) ELSE <<>>)
         IN  IF bad # 0 THEN [exc |-> cs[bad].exc, el |-> NoElement]
             ELSE [exc |-> "", el |-> Element("NODE", attribs, [k \in 1..Len(od) |-> cs[k].el])]

\* CTDModel.generate_ctd_tree(arg_dict), of a model made with CTDModel(name, version)
generate_ctd_tree(ns, h, arg_dict) ==
    LET tool_attribs ==
            ("version" :> ToolVersion) @@ ("name" :> ToolName)
            @@ ("xmlns:xsi" :> "http://www.w3.org/2001/XMLSchema-instance")
            @@ ("xsi:schemaLocation" :>
                    "https://github.com/genericworkflownodes/CTDopts/raw/master/schemas/CTD_0_3.xsd")
        params_attribs ==
            ("version" :> "1.6.2")
            @@ ("xmlns:xsi" :> "http://www.w3.org/2001/XMLSchema-instance")
            @@ ("xsi:noNamespaceSchemaLocation" :>
                    "https://github.com/genericworkflownodes/CTDopts/raw/master/schemas/Param_1_6_2.xsd")
        version_item ==
            Element("ITEM",
                    ("name" :> "version") @@ ("value" :> ToolVersion) @@ ("type" :> "string")
                    @@ ("description" :> "Version of the tool that generated this parameters file.")
                    @@ ("tags" :> "advanced"),
                    <<>>)
        args_top_node == xml_node(ns, 1, h, arg_dict)
        top_node == Element("NODE", ("name" :> ToolName) @@ ("description" :> ""),
                            <<version_item, args_top_node.el>>)
    IN  IF args_top_node.exc # "" THEN args_top_node
        ELSE [exc |-> "",
              el |-> Element("tool", tool_attribs,
                             <<Element("PARAMETERS", params_attribs, <<top_node>>)>>)]

\* CTDModel.write_ctd: the document written, as its readers will parse it
write_ctd(ns, h, arg_dict) == generate_ctd_tree(ns, h, arg_dict)

RECURSIVE get_args(_)
\* get_args of args_from_file on a NODE: the dictionary of its children
get_args(element) ==
    LET cs == element.children
        holds(c) == \/ c.tag = "NODE"
                    \/ c.tag = "ITEM" /\ "value" \in DOMAIN c.attrib
                    \/ c.tag = "ITEMLIST" /\ c.children # <<>>
        last(k) == CHOOSE i \in 1..Len(cs) :
                        /\ holds(cs[i]) /\ cs[i].attrib["name"] = k
                        /\ \A j \in (i + 1)..Len(cs) : ~(holds(cs[j]) /\ cs[j].attrib["name"] = k)
        entry(c) == CASE c.tag = "NODE" -> get_args(c)
                      [] c.tag = "ITEM" -> PyStr(c.attrib["value"])
                      [] c.tag = "ITEMLIST" ->
                            PyList([i \in 1..Len(c.children) |->
                                        PyStr(c.children[i].attrib["value"])])
    IN  PyDict([k \in {cs[i].attrib["name"] : i \in {j \in 1..Len(cs) : holds(cs[j])}} |->
                    entry(cs[last(k)])])

\* args_from_file: the nested dictionary of the values found in the document
args_from_file(root) ==
    LET param_root == IF root.tag = "PARAMETERS" THEN root ELSE Find(root, "PARAMETERS")
        outer == Find(param_root, "NODE")
        parameters == Find(outer, "NODE")
    IN  IF param_root = NoElement \/ outer = NoElement \/ parameters = NoElement
        THEN Raise("AttributeError")
        ELSE Ok(get_args(parameters))

\* _translate_ctd_to_param: the keyword arguments for Parameter from an
\* element's attributes, or the exception raised
translate_ctd_to_param(attribs) ==
    LET keep == DOMAIN attribs \ {"value", "supported_formats", "name", "type"}
        base == [k \in keep |-> PyStr(attribs[k])]
                @@ (IF "name" \in DOMAIN attribs THEN "name" :> attribs["name"] ELSE <<>>)
                @@ (IF "type" \in DOMAIN attribs THEN "type" :> attribs["type"] ELSE <<>>)
                @@ (IF "value" \in DOMAIN attribs
                    THEN "default" :> PyStr(attribs["value"]) ELSE <<>>)
                @@ (IF "supported_formats" \in DOMAIN attribs
                    THEN "file_formats" :> PyStr(attribs["supported_formats"]) ELSE <<>>)
        bound(f) == IF f = "" THEN None ELSE PyStr(f)
        Choices(kw, items) ==
            [exc |-> "",
             kwargs |-> ("choices" :> PyList([i \in 1..Len(items) |-> PyStr(items[i])])) @@ kw]
        Range(kw, fields) ==
            IF Len(fields) # 2 THEN [exc |-> "ValueError", kwargs |-> kw]
            ELSE [exc |-> "",
                  kwargs |-> ("num_range" :> <<bound(fields[1]), bound(fields[2])>>) @@ kw]
        Restricted(kw, r) ==
            IF Contains(r, ",") THEN Choices(kw, Split(r, ","))
            ELSE IF Contains(r, ":") THEN Range(kw, Split(r, ":"))
            ELSE [exc |-> "ModelParsingError", kwargs |-> kw]
    IN  IF "restrictions" \notin DOMAIN attribs THEN [exc |-> "", kwargs |-> base]
        ELSE Restricted(base, attribs["restrictions"])

\* element.attrib.get('description', '')
DescriptionOf(element) ==
    PyStr(IF "description" \in DOMAIN element.attrib THEN element.attrib["description"] ELSE "")

\* _build_param_model on an ITEM or ITEMLIST: base.add(**setup)
BuildLeaf(ns, element, base) ==
    LET as_list(kw) ==
            ("default" :> PyList([i \in 1..Len(element.children) |->
                                    PyStr(element.children[i].attrib["value"])]))
            @@ ("is_list" :> PyBool(TRUE)) @@ kw
        Register1(setup) ==
            IF setup.exc # "" THEN [exc |-> setup.exc, nodes |-> ns]
            ELSE IF "name" \notin DOMAIN setup.kwargs THEN [exc |-> "TypeError", nodes |-> ns]
            ELSE add(ns, base, setup.kwargs["name"],
                     IF element.tag = "ITEM" THEN setup.kwargs ELSE as_list(setup.kwargs))
    IN  Register1(translate_ctd_to_param(element.attrib))

RECURSIVE BuildChildren(_, _, _, _)
\* for child in element: self._build_param_model(child, current_group), a
\* NODE among the children being registered with add_group and built in turn
BuildChildren(ns, children, i, current_group) ==
    LET Built(child) ==
            CASE child.tag = "NODE" ->
                    IF "name" \notin DOMAIN child.attrib
                    THEN [exc |-> "KeyError", nodes |-> ns]
                    ELSE BuildChildren(add_group(ns, current_group, child.attrib["name"],
                                                 DescriptionOf(child)),
                                       child.children, 1, Len(ns) + 1)
              [] child.tag \in {"ITEM", "ITEMLIST"} -> BuildLeaf(ns, child, current_group)
              [] OTHER -> [exc |-> "", nodes |-> ns]
        Rest(b) ==
            IF b.exc # "" THEN b ELSE BuildChildren(b.nodes, children, i + 1, current_group)
    IN  IF i > Len(children) THEN [exc |-> "", nodes |-> ns]
        ELSE Rest(Built(children[i]))

\* CTDModel._build_param_model(element, base=None) on the top NODE: the
\* objects of the model, the top group first, or the exception raised
build_param_model(element) ==
    IF element.tag # "NODE" THEN [exc |-> "", nodes |-> <<>>]
    ELSE IF "name" \notin DOMAIN element.attrib THEN [exc |-> "KeyError", nodes |-> <<>>]
    ELSE BuildChildren(<<ParameterGroupInit(element.attrib["name"], 0, DescriptionOf(element))>>,
                       element.children, 1, 1)

\* CTDModel._load_from_file: the objects of the model built from the
\* document, nodes[1] being its parameters group, or the exception raised
load_from_file(root) ==
    LET Truth(el) == el # NoElement /\ el.children # <<>>
        Container(params_container_node) ==
            IF params_container_node = NoElement
            THEN [exc |-> "AttributeError", nodes |-> <<>>]
            ELSE build_param_model(
                    IF \/ Find(params_container_node, "NODE") = NoElement
                       \/ Find(params_container_node, "ITEM") # NoElement
                       \/ Truth(Find(params_container_node, "ITEMLIST"))
                    THEN params_container_node
                    ELSE Find(params_container_node, "NODE"))
        Parameters(tool_element) ==
            IF tool_element = NoElement THEN [exc |-> "", nodes |-> <<>>]
            ELSE Container(Find(tool_element, "NODE"))
    IN  IF root.tag # "tool" \/ {"name", "version"} \ DOMAIN root.attrib # {}
        THEN [exc |-> "AssertionError", nodes |-> <<>>]
        ELSE Parameters(Find(root, "PARAMETERS"))

-----------------------------------------------------------------------------
(* argparse, as parse_cl_args and parse_cl_directives use it: a parser     *)
(* with optional arguments only, and parse_known_args on a list of tokens. *)
(* The tokens of the model are option strings ('--' and a text), negative  *)
(* numbers and plain words; none holds '=' or a space.                     *)

\* the default prefix of parse_cl_args and parse_cl_directives
Prefix == "--"

\* the tokens that do not start with '-'
Words == {"x", "5", "out.ctd"}
\* the tokens that spell a negative number
NegativeNumbers == {"-" \o ToString(n) : n \in 1..MaxInt}

\* the names the parameters and groups of a command-line tool have
ClNames == {"a", "in-file"}
\* lineages joined by ':'
LineageTexts ==
    {JoinStr(q, ":") : q \in UNION {[1..n -> ClNames] : n \in 1..MaxNodes}}
\* what follows a token in an option string that starts with it
FlagTails == {":" \o l : l \in LineageTexts} \cup {"_ctd"}

\* flag.startswith(tok), tok not being flag itself
Abbreviates(tok, flag) == \E t \in FlagTails : tok \o t = flag

\* the dest argparse derives from an option string '--text': the text with
\* every '-' replaced by '_' (the replacement acts within each piece
\* between ':')
Dest(text) ==
    LET Pieces(q) == JoinStr([i \in 1..Len(q) |-> Replace(q[i], "-", "_")], ":")
    IN  Pieces(Split(text, ":"))

\* parser.add_argument(prefix + text, **kws): what the parser keeps of it;
\* the default is None, False for action='store_true'
Argument(text, action, nargs) ==
    [flag |-> Prefix \o text, dest |-> Dest(text), action |-> action, nargs |-> nargs,
     default |-> IF action = "store_true" THEN PyBool(FALSE) ELSE None]

\* _parse_optional: the position in the parser of the argument the token is
\* an option string of, or the only one it abbreviates; 0 for an option
\* string the parser does not know; -1 for a value (a word, or a negative
\* number); -2 for a token that abbreviates several option strings
OptionOf(parser, tok) ==
    LET Exact == {j \in 1..Len(parser) : parser[j].flag = tok}
        Abbr == {j \in 1..Len(parser) : Abbreviates(tok, parser[j].flag)}
    IN  IF tok \in Words THEN -1
        ELSE IF Exact # {} THEN CHOOSE j \in Exact : TRUE
        ELSE IF Cardinality(Abbr) > 1 THEN -2
        ELSE IF Abbr # {} THEN CHOOSE j \in Abbr : TRUE
        ELSE IF tok \in NegativeNumbers THEN -1
        ELSE 0

RECURSIVE ValuesFrom(_, _, _)
\* the values an option can take: the tokens from i up to the next option string
ValuesFrom(parser, argv, i) ==
    IF i > Len(argv) THEN <<>>
    ELSE IF OptionOf(parser, argv[i]) # -1 THEN <<>>
    ELSE <<argv[i]>> \o ValuesFrom(parser, argv, i + 1)

\* setattr(namespace, dest, value)
SetAttr(namespace, dest, value) == [namespace EXCEPT ![dest] = value]

RECURSIVE ConsumeFrom(_, _, _, _, _)
\* the loop of parse_known_args from token i on: an option the parser knows
\* takes its values (none for store_true, one without nargs, all that
\* follow for nargs='*') and sets its dest; anything else goes to extras
ConsumeFrom(parser, argv, i, namespace, extras) ==
    LET Known(arg, vals) ==
            IF arg.action = "store_true"
            THEN ConsumeFrom(parser, argv, i + 1,
                             SetAttr(namespace, arg.dest, PyBool(TRUE)), extras)
            ELSE IF arg.nargs = "*"
            THEN ConsumeFrom(parser, argv, i + 1 + Len(vals),
                             SetAttr(namespace, arg.dest,
                                     PyList([k \in 1..Len(vals) |-> PyStr(vals[k])])),
                             extras)
            ELSE IF vals = <<>>
            THEN [exc |-> "SystemExit", namespace |-> namespace, rest |-> extras]
            ELSE ConsumeFrom(parser, argv, i + 2,
                             SetAttr(namespace, arg.dest, PyStr(vals[1])), extras)
        Token(j) ==
            IF j <= 0
            THEN ConsumeFrom(parser, argv, i + 1, namespace, Append(extras, argv[i]))
            ELSE Known(parser[j], ValuesFrom(parser, argv, i + 1))
    IN  IF i > Len(argv) THEN [exc |-> "", namespace |-> namespace, rest |-> extras]
        ELSE Token(OptionOf(parser, argv[i]))

\* parser.parse_known_args(argv): the namespace as a mapping from dest to
\* value and the tokens left over, or SystemExit after parser.error()
parse_known_args(parser, argv) ==
    LET Dests == {parser[j].dest : j \in 1..Len(parser)}
        First(d) == CHOOSE j \in 1..Len(parser) :
                        parser[j].dest = d /\ \A k \in 1..(j - 1) : parser[k].dest # d
    IN  IF \E i \in 1..Len(argv) : OptionOf(parser, argv[i]) = -2
        THEN [exc |-> "SystemExit", namespace |-> EmptyMap, rest |-> <<>>]
        ELSE ConsumeFrom(parser, argv, 1, [d \in Dests |-> parser[First(d)].default], <<>>)

-----------------------------------------------------------------------------
(* CTDModel.parse_cl_args *)

\* the loop over list_parameters(): one optional argument for each
\* parameter, a flag for a boolean, taking strings otherwise, any number of
\* them for a list
ClParser(ns) ==
    LET ps == list_parameters(ns)
    IN  [k \in 1..Len(ps) |->
            Argument(param_name(ns, ps[k]),
                     IF ns[ps[k]].type = "bool" THEN "store_true" ELSE "store",
                     IF ns[ps[k]].is_list THEN "*" ELSE "")]

RECURSIVE StoreParsed(_, _, _, _)
\* the loop over vars(parsed_args): every value that is not None is stored
\* at param_name.split(':')
StoreParsed(h, res_args, namespace, dests) ==
    LET Stored(st) ==
            IF st.exc # "" THEN st
            ELSE StoreParsed(st.heap, res_args, namespace, Tail(dests))
    IN  IF dests = <<>> THEN [exc |-> "", heap |-> h]
        ELSE IF namespace[dests[1]] = None
        THEN StoreParsed(h, res_args, namespace, Tail(dests))
        ELSE Stored(set_nested_key(h, res_args, Split(dests[1], ":"), namespace[dests[1]]))

\* CTDModel.parse_cl_args(cl_args, get_remaining=True), cl_args a list of
\* tokens: the dictionary written out and the tokens left over, or the
\* exception raised
parse_cl_args(ns, cl_args) ==
    LET Collected(rest, st) ==
            IF st.exc # "" THEN [exc |-> st.exc, res |-> None, rest |-> <<>>]
            ELSE [exc |-> "", res |-> Deref(st.heap, Ref(1)), rest |-> rest]
        Parsed(r) ==
            IF r.exc # "" THEN [exc |-> r.exc, res |-> None, rest |-> <<>>]
            ELSE Collected(r.rest, StoreParsed(NewDict(<<>>), Ref(1), r.namespace,
                                               KeySeq(DOMAIN r.namespace)))
    IN  Parsed(parse_known_args(ClParser(ns), cl_args))

-----------------------------------------------------------------------------
(* parse_cl_directives *)

\* transform = lambda x: None if x is None else True if x == [] else x[0]
transform(x) ==
    IF x = None THEN None
    ELSE IF x = PyList(<<>>) THEN PyBool(TRUE)
    ELSE Val(x)[1]

\* parse_cl_directives(cl_args, write_tool_ctd, write_param_ctd, input_ctd),
\* cl_args a list of tokens: the dictionary returned, or the exception
\* raised; directives[name] raises KeyError when the namespace has no such key
parse_cl_directives(cl_args, write_tool_ctd, write_param_ctd, input_ctd) ==
    LET Directives(r) ==
            IF r.exc # "" THEN Raise(r.exc)
            ELSE IF {write_tool_ctd, write_param_ctd, input_ctd} \ DOMAIN r.namespace # {}
            THEN Raise("KeyError")
            ELSE Ok(PyDict(("write_tool_ctd" :> transform(r.namespace[write_tool_ctd]))
                           @@ ("write_param_ctd" :> transform(r.namespace[write_param_ctd]))
                           @@ ("input_ctd" :> r.namespace[input_ctd])))
    IN  Directives(parse_known_args(<<Argument(write_tool_ctd, "store", "*"),
                                      Argument(write_param_ctd, "store", "*"),
                                      Argument(input_ctd, "store", "")>>,
                                    cl_args))

-----------------------------------------------------------------------------
(* The program: a CTDModel is built with add and add_group, then read *)

Names == {"a", "b"}
GroupNames == {"a"}
Levels == {0, 1, 2}

\* the keyword arguments the add calls of the model use
AddKwargs == <<
    ("type" :> "int") @@ ("required" :> PyBool(TRUE)) @@ ("num_range" :> <<PyInt(0), None>>),
    ("type" :> "int") @@ ("default" :> PyInt(5)) @@ ("choices" :> PyList(<<PyInt(1), PyInt(5)>>)),
    ("type" :> "str") @@ ("description" :> PyStr("text")),
    ("type" :> "bool") @@ ("required" :> PyBool(TRUE)) @@ ("default" :> PyStr("yes")),
    ("type" :> "int") @@ ("is_list" :> PyBool(TRUE)) @@ ("default" :> PyList(<<PyInt(5)>>))
        @@ ("num_range" :> <<PyInt(0), None>>) >>

\* the values a caller passes for a parameter of the given type
ValuesFor(prm) ==
    IF prm.is_list
    THEN {PyList(<<>>), PyList(<<PyStr("1")>>), PyList(<<PyStr("1"), PyStr("abc")>>),
          PyList(<<PyInt(-5)>>), PyInt(5), PyDict("abc" :> PyInt(1))}
    ELSE CASE prm.type = "bool" ->
                {PyStr("true"), PyStr("True"), PyStr("1"), PyStr("false"), PyStr("0")}
           [] prm.type \in {"int", "float"} ->
                {PyStr("5"), PyStr("abc"), PyInt(-5), None}
           [] OTHER -> {PyStr("this"), PyStr(""), None}

RECURSIVE ArgDicts(_, _)
\* the argument dictionaries for group g: any subset of its keys, each with
\* one of the values a caller may pass there: a value for a parameter; a
\* mapping, or a scalar by mistake, for a group
ArgDicts(ns, g) ==
    LET od == ns[g].parameters
        child(k) == od[KeyIndex(od, k)][2]
        keys == {od[i][1] : i \in 1..Len(od)}
        ArgsAt(i) == IF ns[i].kind = "param" THEN ValuesFor(ns[i])
                     ELSE {PyInt(5)} \cup {PyDict(f) : f \in ArgDicts(ns, i)}
        all == UNION {ArgsAt(child(k)) : k \in keys}
    IN  UNION {{f \in [K -> all] : \A k \in K : f[k] \in ArgsAt(child(k))} :
               K \in SUBSET keys}

NoCall ==
    [args |-> None, input |-> None, objects |-> 0, levels |-> <<0, 0, 0>>,
     status |-> "none", at |-> 0, param |-> 0, param_name |-> "", value |-> None,
     out |-> None, warnings |-> <<>>]

\* nothing written, extracted or loaded yet
NoDoc == [exc |-> "none", tree |-> NoElement]
NoArgs == [exc |-> "none", val |-> None]
NoModel == [exc |-> "none", nodes |-> <<>>]

\* no command line parsed, nothing merged, constructed or checked yet
NoParse == [argv |-> <<>>, exc |-> "none", res |-> None, rest |-> <<>>]
NoDirectives == [argv |-> <<>>, names |-> <<>>, exc |-> "none", val |-> None]
NoMerge == [arg_dicts |-> <<>>, exc |-> "none", res |-> None, after |-> <<>>]
NoParameter == [kwargs |-> EmptyMap, exc |-> "none", node |-> ParameterGroupInit("", 0, None)]
NoCheck == [restrictions |-> NoRestriction, value |-> None, exc |-> "none", val |-> FALSE]
NoFlat == [arg |-> None, arg_dict |-> None, tuples |-> <<>>, strings |-> <<>>]

\* CTDModel(name, version): the root group, named "1", with no parent
Init ==
    /\ nodes = <<ParameterGroupInit("1", 0, PyStr("Parameters of tool"))>>
    /\ heap = <<>>
    /\ pc = "init"
    /\ call = NoCall
    /\ prev = NoCall
    /\ overlay = None
    /\ doc = NoDoc
    /\ extracted = NoArgs
    /\ loaded = NoModel
    /\ cl = NoParse
    /\ directives = NoDirectives
    /\ merged = NoMerge
    /\ default_args = None
    /\ made = NoParameter
    /\ checked = NoCheck
    /\ listed = <<>>
    /\ flat = NoFlat

Groups(ns) == {g \in 1..Len(ns) : ns[g].kind = "group"}

\* name is not yet a key of group g
Unused(ns, g, name) == KeyIndex(ns[g].parameters, name) = 0

\* group.add(name, **kwargs) on a group of the model that has fewer than
\* bound objects, with a name of NameSet the group does not hold yet and the
\* keyword arguments of one of the calls in Kwargs
AddUpTo(NameSet, Kwargs, bound) ==
    /\ pc \in {"init", "built"}
    /\ Len(nodes) - 1 < bound
    /\ \E g \in Groups(nodes), name \in NameSet, k \in 1..Len(Kwargs) :
            LET Added(a) == a.exc = "" /\ nodes' = a.nodes
            IN  /\ Unused(nodes, g, name)
                /\ Added(add(nodes, g, name, Kwargs[k]))
    /\ pc' = "built"
    /\ UNCHANGED <<heap, call, prev, overlay, doc, extracted, loaded, lib_vars>>

\* the same for a model of up to MaxNodes objects
AddWith(NameSet, Kwargs) == AddUpTo(NameSet, Kwargs, MaxNodes)

\* the add calls of the model
Add == AddWith(Names, AddKwargs)

\* group.add_group(name) on a group of the model that has fewer than bound objects
AddGroupUpTo(bound) ==
    /\ pc \in {"init", "built"}
    /\ Len(nodes) - 1 < bound
    /\ \E g \in Groups(nodes), name \in GroupNames :
            /\ Unused(nodes, g, name)
            /\ nodes' = add_group(nodes, g, name, None)
    /\ pc' = "built"
    /\ UNCHANGED <<heap, call, prev, overlay, doc, extracted, loaded, lib_vars>>

\* group.add_group(name) on a group of the model
AddGroup == AddGroupUpTo(MaxNodes)

\* the record of a validate_args call on args with the given levels, r being
\* what the call did: input is the dictionary as it was when the call began,
\* objects the number of mapping objects there were then
CallRecord(h, args, levels, r) ==
    [args |-> args, input |-> Deref(h, args), objects |-> Len(h), levels |-> levels,
     status |-> r.status,
     at |-> r.at, param |-> r.param, param_name |-> r.param_name, value |-> r.value,
     out |-> r.out, warnings |-> r.warnings]

\* model.validate_args(D, enforce_required, enforce_type, enforce_restrictions)
\* on a dictionary D the caller has just built, the levels being in LevelSet
ValidateWith(LevelSet) ==
    /\ pc \in {"init", "built"}
    /\ \E D \in ArgDicts(nodes, 1), levels \in LevelSet :
            LET Returns(a, r) ==
                    /\ call' = CallRecord(a.heap, a.val, levels, r)
                    /\ heap' = r.heap
                Calls(a) == Returns(a, validate_args(nodes, a.heap, a.val, levels))
            IN  Calls(Alloc(heap, PyDict(D)))
    /\ prev' = call
    /\ pc' = "validated"
    /\ UNCHANGED <<nodes, overlay, doc, extracted, loaded, lib_vars>>

\* validate_args at any of the enforcement levels
Validate == ValidateWith(Levels \X Levels \X Levels)

\* validate_args with everything enforced: it returns for a D that is valid
ValidateStrict == ValidateWith({<<2, 2, 2>>})

\* validated = model.validate_args(D); model.validate_args(validated): the
\* dictionary a call with the default levels returned is validated again
ValidateAgain ==
    /\ pc = "validated"
    /\ prev = NoCall
    /\ call.status = "returned"
    /\ call.levels = <<0, 0, 0>>
    /\ LET Returns(r) ==
                /\ call' = CallRecord(heap, call.out, call.levels, r)
                /\ heap' = r.heap
       IN  Returns(validate_args(nodes, heap, call.out, call.levels))
    /\ prev' = call
    /\ UNCHANGED <<nodes, pc, overlay, doc, extracted, loaded, lib_vars>>

Next ==
    \/ Add
    \/ AddGroup
    \/ Validate
    \/ ValidateAgain

Spec == Init /\ [][Next]_vars

-----------------------------------------------------------------------------
(* Writing a CTD document and reading it back *)

\* model.write_ctd(file, validated) after a validate_args call that returned,
\* model.write_ctd(file) when nothing was validated
WriteCtd ==
    /\ pc \in {"init", "built", "validated"}
    /\ pc = "validated" => call.status = "returned"
    /\ LET Written(arg_dict, w) ==
                /\ overlay' = arg_dict
                /\ doc' = [exc |-> w.exc, tree |-> w.el]
           Writes(arg_dict) == Written(arg_dict, write_ctd(nodes, heap, arg_dict))
       IN  Writes(IF pc = "validated" THEN call.out ELSE None)
    /\ pc' = "written"
    /\ UNCHANGED <<nodes, heap, call, prev, extracted, loaded, lib_vars>>

\* args_from_file(file) on the document written
ArgsFromFile ==
    /\ pc = "written"
    /\ doc.exc = ""
    /\ extracted' = args_from_file(doc.tree)
    /\ pc' = "extracted"
    /\ UNCHANGED <<nodes, heap, call, prev, overlay, doc, loaded, lib_vars>>

\* model.validate_args(args_from_ctd) on the dictionary extracted
ValidateExtracted ==
    /\ pc = "extracted"
    /\ extracted.exc = ""
    /\ LET Returns(a, r) ==
                /\ call' = CallRecord(a.heap, a.val, <<0, 0, 0>>, r)
                /\ heap' = r.heap
           Calls(a) == Returns(a, validate_args(nodes, a.heap, a.val, <<0, 0, 0>>))
       IN  Calls(Alloc(heap, extracted.val))
    /\ prev' = call
    /\ pc' = "revalidated"
    /\ UNCHANGED <<nodes, overlay, doc, extracted, loaded, lib_vars>>

\* CTDModel(from_file=file) on the document written
LoadFromFile ==
    /\ pc = "written"
    /\ doc.exc = ""
    /\ loaded' = load_from_file(doc.tree)
    /\ pc' = "loaded"
    /\ UNCHANGED <<nodes, heap, call, prev, overlay, doc, extracted, lib_vars>>

NextDoc ==
    \/ Add
    \/ AddGroup
    \/ ValidateStrict
    \/ WriteCtd
    \/ ArgsFromFile
    \/ ValidateExtracted
    \/ LoadFromFile

SpecDoc == Init /\ [][NextDoc]_vars

-----------------------------------------------------------------------------
(* Parsing a command line *)

\* the keyword arguments the add calls of a command-line tool use
ClKwargs == <<
    ("type" :> "str"),
    ("type" :> "bool"),
    ("type" :> "str") @@ ("is_list" :> PyBool(TRUE)),
    ("type" :> "int") @@ ("default" :> PyInt(5)) >>

AddCl == AddWith(ClNames, ClKwargs)

\* the tokens of the command lines: the flags of the model's parameters, a
\* flag cut short, a flag the model does not have, a word, a negative number
ClTokens(ns) ==
    {Prefix \o param_name(ns, p) : p \in {q \in 1..Len(ns) : ns[q].kind = "param"}}
        \cup {"--a", "--zz", "x", "-5"}

\* the lists of up to MaxTokens tokens
Argvs(tokens) == UNION {[1..n -> tokens] : n \in 0..MaxTokens}

\* model.parse_cl_args(argv, get_remaining=True)
ParseClArgs ==
    /\ pc \in {"init", "built"}
    /\ \E argv \in Argvs(ClTokens(nodes)) :
            LET Parsed(r) ==
                    cl' = [argv |-> argv, exc |-> r.exc, res |-> r.res, rest |-> r.rest]
            IN  Parsed(parse_cl_args(nodes, argv))
    /\ pc' = "parsed"
    /\ UNCHANGED <<nodes, heap, call, prev, overlay, doc, extracted, loaded>>
    /\ UNCHANGED <<directives, merged, default_args, made, checked, listed, flat>>

NextCl ==
    \/ AddCl
    \/ AddGroup
    \/ ParseClArgs

SpecCl == Init /\ [][NextCl]_vars

-----------------------------------------------------------------------------
(* Merging argument dictionaries *)

\* the values at the keys of the dictionaries merged, and the keys
MergeValues == {PyInt(1), PyInt(2)}
MergeKeys == {"a", "b"}
\* a group's dictionary: empty, or a value at the key b
MergeGroups == {PyDict(EmptyMap)} \cup {PyDict("b" :> v) : v \in MergeValues}
\* the dictionaries merged: at any of the keys a value or a group's dictionary
MergeDicts ==
    UNION {[K -> MergeValues \cup MergeGroups] : K \in SUBSET MergeKeys}

RECURSIVE AllocAll(_, _)
\* the dictionaries ds evaluated one after the other: the heap and the objects
AllocAll(h, ds) ==
    LET Next1(a, rest) == [heap |-> rest.heap, vals |-> <<a.val>> \o rest.vals]
        First1(a) == Next1(a, AllocAll(a.heap, Tail(ds)))
    IN  IF ds = <<>> THEN [heap |-> h, vals |-> <<>>]
        ELSE First1(Alloc(h, PyDict(ds[1])))

\* override_args(d1, ..., dn) on dictionaries the caller has just built
OverrideArgs ==
    /\ pc = "init"
    /\ merged = NoMerge
    /\ \E n \in 0..MaxDicts : \E ds \in [1..n -> MergeDicts] :
            LET Returned1(a, r) ==
                    merged' = [arg_dicts |-> [i \in 1..n |-> Deref(a.heap, a.vals[i])],
                               exc |-> r.exc,
                               res |-> Deref(r.heap, r.val),
                               after |-> [i \in 1..n |-> Deref(r.heap, a.vals[i])]]
                Called1(a, keys) ==
                    \E order \in Orders(keys) :
                        Returned1(a, override_args(a.heap, a.vals, order))
                Flattened(a) ==
                    Called1(a, UNION {DOMAIN flatten_dict(a.heap, a.vals[i]) : i \in 1..n})
            IN  Flattened(AllocAll(heap, ds))
    /\ UNCHANGED <<model_vars, cl, directives, default_args, made, checked, listed, flat>>

NextMerge == OverrideArgs

SpecMerge == Init /\ [][NextMerge]_vars

-----------------------------------------------------------------------------
(* The defaults of a model *)

\* get_defaults taking the defaults out of the parameters it reads
GetDefaultsTaken ==
    /\ pc \in {"init", "built"}
    /\ default_args' = get_defaults(nodes)
    /\ nodes' = [i \in 1..Len(nodes) |-> [nodes[i] EXCEPT !.default = None]]
    /\ pc' = "defaults"
    /\ UNCHANGED <<heap, call, prev, overlay, doc, extracted, loaded>>
    /\ UNCHANGED <<cl, directives, merged, made, checked, listed, flat>>

\* model.get_defaults()
GetDefaults ==
    /\ pc \in {"init", "built"}
    /\ default_args' = get_defaults(nodes)
    /\ pc' = "defaults"
    /\ UNCHANGED <<nodes, heap, call, prev, overlay, doc, extracted, loaded>>
    /\ UNCHANGED <<cl, directives, merged, made, checked, listed, flat>>

NextDefaults ==
    \/ Add
    \/ AddGroup
    \/ GetDefaults

SpecDefaults == Init /\ [][NextDefaults]_vars

-----------------------------------------------------------------------------
(* Parsing the CTD directives of a command line *)

\* the names of the three directives: the defaults, and customized ones
DirectiveNames == {
    <<"write_tool_ctd", "write_param_ctd", "input_ctd">>,
    <<"toolctd", "paramctd", "inctd">>,
    <<"a", "b", "in-file">> }

\* the tokens of the command lines: the three flags, a flag cut short, file names
DirectiveTokens(names) ==
    {Prefix \o names[k] : k \in 1..3} \cup {"--input", "out.ctd", "x"}

\* parse_cl_directives(argv, write_tool_ctd=..., write_param_ctd=..., input_ctd=...)
ParseClDirectives ==
    /\ pc = "init"
    /\ directives = NoDirectives
    /\ \E names \in DirectiveNames : \E argv \in Argvs(DirectiveTokens(names)) :
            LET Parsed(r) ==
                    directives' = [argv |-> argv, names |-> names, exc |-> r.exc, val |-> r.val]
            IN  Parsed(parse_cl_directives(argv, names[1], names[2], names[3]))
    /\ UNCHANGED <<model_vars, cl, merged, default_args, made, checked, listed, flat>>

NextDirectives == ParseClDirectives

SpecDirectives == Init /\ [][NextDirectives]_vars

-----------------------------------------------------------------------------
(* Constructing parameters *)

\* the keyword arguments of Parameter(name, parent, **kwargs): any of type,
\* required, is_list and default may be left out
CtorKwargs ==
    LET Kw(key, values) == {EmptyMap} \cup {key :> v : v \in values}
    IN  {t @@ r @@ l @@ d :
            t \in Kw("type", {"int", "str", "bool", "boolean"}),
            r \in Kw("required", {PyBool(TRUE), PyBool(FALSE), PyStr("true")}),
            l \in Kw("is_list", {PyBool(TRUE), PyBool(FALSE)}),
            d \in Kw("default", {PyInt(5), PyStr("yes"), PyStr(""), PyList(<<PyInt(5)>>),
                                 PyList(<<>>)})}

\* Parameter('a', model.parameters, **kwargs)
NewParameter ==
    /\ pc \in {"init", "built"}
    /\ \E kwargs \in CtorKwargs :
            LET Made(r) == made' = [kwargs |-> kwargs, exc |-> r.exc, node |-> r.node]
            IN  Made(ParameterInit("a", 1, kwargs))
    /\ pc' = "made"
    /\ UNCHANGED <<nodes, heap, call, prev, overlay, doc, extracted, loaded>>
    /\ UNCHANGED <<cl, directives, merged, default_args, checked, listed, flat>>

\* the keyword arguments of the add calls: those of the model, and a
\* required parameter given a default
BuildKwargs ==
    Append(AddKwargs,
           ("type" :> "int") @@ ("required" :> PyBool(TRUE)) @@ ("default" :> PyInt(5)))

AddBuild == AddWith(Names, BuildKwargs)

NextBuild ==
    \/ AddBuild
    \/ AddGroup
    \/ NewParameter

SpecBuild == Init /\ [][NextBuild]_vars

-----------------------------------------------------------------------------
(* Checking values against restrictions *)

\* the lists of up to MaxList of the values S
ListsOf(S) == {PyList(q) : q \in UNION {[1..n -> S] : n \in 0..MaxList}}

\* the ends num_range is given: None, integers, and a number between two of them
RangeEnds == {None, PyFloat(15)} \cup {PyInt(n) : n \in 0..MaxRange}
\* _NumericRange(n_type, n_min, n_max) for the two numeric types
NumericRanges ==
    {NumericRangeInit(n_type, n_min, n_max).val :
        n_type \in {"int", "float"}, n_min \in RangeEnds, n_max \in RangeEnds}
\* the numbers checked against them
Numbers == {PyInt(n) : n \in (0 - 1)..(MaxRange + 1)} \cup {PyFloat(5), PyFloat(15)}

\* _Choices(choices)
ChoiceLists ==
    {ChoicesInit(<<PyStr("this"), PyStr("that")>>), ChoicesInit(<<PyInt(1), PyInt(5)>>)}
ChoiceValues == {PyStr("this"), PyStr("other"), PyInt(5), PyFloat(10)}

\* _FileFormat(formats)
FileFormats ==
    {FileFormatInit(<<"fastq.gz">>), FileFormatInit(<<"gz">>), FileFormatInit(<<"txt", "gz">>)}
FileValues == {PyStr("a.fastq.gz"), PyStr("a.txt"), PyStr("b.gz"), PyInt(5)}

\* the restrictions.check(value) calls: a restriction of one of the three
\* classes and a value, or a list of values, of the kind it is made for
CheckCalls ==
    (NumericRanges \X (Numbers \cup ListsOf(Numbers)))
    \cup (ChoiceLists \X (ChoiceValues \cup ListsOf(ChoiceValues)))
    \cup (FileFormats \X (FileValues \cup ListsOf(FileValues)))

\* restrictions.check(value)
Check ==
    /\ pc = "init"
    /\ checked = NoCheck
    /\ \E c \in CheckCalls :
            LET Checked1(r) ==
                    checked' = [restrictions |-> c[1], value |-> c[2], exc |-> r.exc,
                                val |-> r.val]
            IN  Checked1(RestrictionCheck(c[1], c[2]))
    /\ UNCHANGED <<model_vars, cl, directives, merged, default_args, made, listed, flat>>

NextCheck == Check

SpecCheck == Init /\ [][NextCheck]_vars

-----------------------------------------------------------------------------
(* Reading a model: calls that follow each other *)

\* model.list_parameters()
ListParameters ==
    /\ pc \in {"init", "built"}
    /\ listed' = list_parameters(nodes)
    /\ pc' = "listed"
    /\ UNCHANGED <<nodes, heap, call, prev, overlay, doc, extracted, loaded>>
    /\ UNCHANGED <<cl, directives, merged, default_args, made, checked, flat>>

\* the program goes on to its next call: what the last call returned is dropped
Resume ==
    /\ pc \in {"validated", "defaults", "parsed", "written", "listed"}
    /\ pc' = "built"
    /\ heap' = <<>>
    /\ call' = NoCall
    /\ prev' = NoCall
    /\ overlay' = None
    /\ doc' = NoDoc
    /\ cl' = NoParse
    /\ default_args' = None
    /\ listed' = <<>>
    /\ UNCHANGED <<nodes, extracted, loaded, directives, merged, made, checked, flat>>

\* validate_args with the three levels alike: nothing enforced, warnings, errors
ValidateUniform == ValidateWith({<<l, l, l>> : l \in Levels})

RECURSIVE GivenFlags(_, _, _)
\* the command line that gives the parameters of the set given, in the order
\* of all_params: the flag alone for a boolean, the flag and a value otherwise
GivenFlags(ns, all_params, given) ==
    IF all_params = <<>> THEN <<>>
    ELSE (IF all_params[1] \notin given THEN <<>>
          ELSE IF ns[all_params[1]].type = "bool"
          THEN <<Prefix \o param_name(ns, all_params[1])>>
          ELSE <<Prefix \o param_name(ns, all_params[1]), "5">>)
         \o GivenFlags(ns, Tail(all_params), given)

\* model.parse_cl_args(argv): some of the parameters given, and possibly a
\* last token that is no flag of the model or a flag without its value
ParseGiven ==
    /\ pc \in {"init", "built"}
    /\ \E given \in SUBSET {list_parameters(nodes)[i] : i \in 1..Len(list_parameters(nodes))},
          last \in {<<>>, <<"--zz">>, <<"--a">>} :
            LET Parsed(argv, r) ==
                    cl' = [argv |-> argv, exc |-> r.exc, res |-> r.res, rest |-> r.rest]
                Parses(argv) == Parsed(argv, parse_cl_args(nodes, argv))
            IN  Parses(GivenFlags(nodes, list_parameters(nodes), given) \o last)
    /\ pc' = "parsed"
    /\ UNCHANGED <<nodes, heap, call, prev, overlay, doc, extracted, loaded>>
    /\ UNCHANGED <<directives, merged, default_args, made, checked, listed, flat>>

NextRead ==
    \/ Add
    \/ AddGroup
    \/ ValidateUniform
    \/ GetDefaults
    \/ ListParameters
    \/ ParseGiven
    \/ WriteCtd
    \/ Resume

SpecRead == Init /\ [][NextRead]_vars

-----------------------------------------------------------------------------
(* Building a model with names used again *)

\* the keyword arguments of the add calls that use a name again
AgainKwargs == <<AddKwargs[1], AddKwargs[2]>>

\* group.add(name, **kwargs) on a group object the caller holds, whether or
\* not the group has a child of that name
AddAgain ==
    /\ pc \in {"init", "built"}
    /\ Len(nodes) - 1 < MaxCalls
    /\ \E g \in Groups(nodes), name \in Names, k \in 1..Len(AgainKwargs) :
            LET Added(a) ==
                    /\ nodes' = a.nodes
                    /\ made' = [kwargs |-> AgainKwargs[k], exc |-> a.exc,
                                node |-> a.nodes[Len(a.nodes)]]
            IN  Added(add(nodes, g, name, AgainKwargs[k]))
    /\ pc' = "built"
    /\ UNCHANGED <<heap, call, prev, overlay, doc, extracted, loaded>>
    /\ UNCHANGED <<cl, directives, merged, default_args, checked, listed, flat>>

\* group.add_group(name) on a group object the caller holds
AddGroupAgain ==
    /\ pc \in {"init", "built"}
    /\ Len(nodes) - 1 < MaxCalls
    /\ \E g \in Groups(nodes), name \in Names :
            /\ nodes' = add_group(nodes, g, name, None)
            /\ made' = [kwargs |-> EmptyMap, exc |-> "",
                        node |-> ParameterGroupInit(name, g, None)]
    /\ pc' = "built"
    /\ UNCHANGED <<heap, call, prev, overlay, doc, extracted, loaded>>
    /\ UNCHANGED <<cl, directives, merged, default_args, checked, listed, flat>>

NextAgain ==
    \/ AddAgain
    \/ AddGroupAgain

SpecAgain == Init /\ [][NextAgain]_vars

\* validate_args on a model of up to MaxCalls objects: the parameter of a
\* group may be made after the parameter that follows the group

AddOrder == AddUpTo(Names, AgainKwargs, MaxCalls)

AddGroupOrder == AddGroupUpTo(MaxCalls)

\* everything enforced; everything warned of; a wrong type warned of while
\* the other two are enforced
OrderLevels == {<<2, 2, 2>>, <<1, 1, 1>>, <<2, 1, 2>>}

ValidateOrder == ValidateWith(OrderLevels)

NextOrder ==
    \/ AddOrder
    \/ AddGroupOrder
    \/ ValidateOrder

SpecOrder == Init /\ [][NextOrder]_vars


-----------------------------------------------------------------------------
(* Loading a document with one leaf *)

LeafTypes == {"int", "float", "string"}
LeafValues == {"", "5", "abc"}
\* restrictions attributes: ranges, vocabularies, and strings that are neither
LeafRestrictions ==
    {"", "5", "abc", "1:5", ":5", "1:", "a:b", "1:b", "1:2:3", "::", "a,b", "1,5"}

\* an ITEM with a value attribute, or an ITEMLIST with its LISTITEM children,
\* with or without a restrictions attribute
Leaves ==
    LET Leaf(tag, type, v, r) ==
            Element(tag,
                    ("name" :> "a") @@ ("type" :> type)
                    @@ (IF tag = "ITEM" THEN "value" :> v ELSE <<>>) @@ r,
                    IF tag = "ITEMLIST" /\ v # ""
                    THEN <<Element("LISTITEM", "value" :> v, <<>>)>> ELSE <<>>)
    IN  {Leaf(tag, type, v, r) :
            tag \in {"ITEM", "ITEMLIST"}, type \in LeafTypes, v \in LeafValues,
            r \in {<<>>} \cup {"restrictions" :> x : x \in LeafRestrictions}}

\* a CTD document whose parameters are the one leaf:
\* tool / PARAMETERS / NODE / NODE name="1" / leaf
LeafDocument(leaf) ==
    Element("tool", ("name" :> ToolName) @@ ("version" :> ToolVersion),
            <<Element("PARAMETERS", "version" :> "1.6.2",
                      <<Element("NODE", "name" :> ToolName,
                                <<Element("NODE", "name" :> "1", <<leaf>>)>>)>>)>>)

\* CTDModel(from_file=file) on such a document
LoadLeaf ==
    /\ pc = "init"
    /\ \E leaf \in Leaves :
            /\ doc' = [exc |-> "", tree |-> LeafDocument(leaf)]
            /\ loaded' = load_from_file(LeafDocument(leaf))
    /\ pc' = "loaded"
    /\ UNCHANGED <<nodes, heap, call, prev, overlay, extracted, lib_vars>>

NextLoad == LoadLeaf

SpecLoad == Init /\ [][NextLoad]_vars

-----------------------------------------------------------------------------
(* Writing a document with a dictionary of the caller *)

\* model.write_ctd(file, D) on a dictionary D the caller has just built
WriteOverlay ==
    /\ pc \in {"init", "built"}
    /\ \E D \in ArgDicts(nodes, 1) :
            LET Written(a, w) ==
                    /\ heap' = a.heap
                    /\ overlay' = a.val
                    /\ doc' = [exc |-> w.exc, tree |-> w.el]
                Writes(a) == Written(a, write_ctd(nodes, a.heap, a.val))
            IN  Writes(Alloc(heap, PyDict(D)))
    /\ pc' = "written"
    /\ UNCHANGED <<nodes, call, prev, extracted, loaded, lib_vars>>

NextOverlay ==
    \/ Add
    \/ AddGroup
    \/ WriteOverlay

SpecOverlay == Init /\ [][NextOverlay]_vars

-----------------------------------------------------------------------------
(* A dictionary of the caller written to a document and read back *)

\* the keyword arguments of required parameters without default
TripKwargs == <<
    ("type" :> "int") @@ ("required" :> PyBool(TRUE)),
    ("type" :> "int") @@ ("required" :> PyBool(TRUE)) @@ ("is_list" :> PyBool(TRUE)) >>

AddTrip == AddWith(Names, TripKwargs)

\* model.validate_args(args_from_file(file), enforce_required=2)
ValidateRequired ==
    /\ pc = "extracted"
    /\ extracted.exc = ""
    /\ LET Returns(a, r) ==
                /\ call' = CallRecord(a.heap, a.val, <<2, 0, 0>>, r)
                /\ heap' = r.heap
           Calls(a) == Returns(a, validate_args(nodes, a.heap, a.val, <<2, 0, 0>>))
       IN  Calls(Alloc(heap, extracted.val))
    /\ prev' = call
    /\ pc' = "revalidated"
    /\ UNCHANGED <<nodes, overlay, doc, extracted, loaded, lib_vars>>

NextTrip ==
    \/ AddTrip
    \/ AddGroup
    \/ WriteOverlay
    \/ ArgsFromFile
    \/ ValidateRequired

SpecTrip == Init /\ [][NextTrip]_vars

-----------------------------------------------------------------------------
(* Restrictions written to a document and loaded from it *)

\* the keyword arguments of parameters with a restriction; the numeric ones
\* have a default, which the document needs to be loaded at all
RoundKwargs == <<
    ("type" :> "str") @@ ("choices" :> PyList(<<PyStr("a")>>)),
    ("type" :> "str") @@ ("choices" :> PyList(<<PyStr("a"), PyStr("b")>>)),
    ("type" :> "int") @@ ("default" :> PyInt(5)) @@ ("num_range" :> <<PyInt(0), None>>),
    ("type" :> "int") @@ ("default" :> PyInt(5)) @@ ("num_range" :> <<None, PyInt(5)>>),
    ("type" :> "input-file") @@ ("file_formats" :> PyList(<<PyStr("txt")>>)),
    ("type" :> "input-file") @@ ("file_formats" :> PyList(<<PyStr("txt"), PyStr("gz")>>)) >>

AddRound == AddWith(Names, RoundKwargs)

NextRound ==
    \/ AddRound
    \/ AddGroup
    \/ WriteCtd
    \/ LoadFromFile

SpecRound == Init /\ [][NextRound]_vars

-----------------------------------------------------------------------------
(* Validating a dictionary that holds more than the model asks for *)

RECURSIVE WithUnknown(_)
\* the dictionary f with a key no parameter or group has, 'zz', added to it
\* and to every mapping nested in it
WithUnknown(f) ==
    [k \in DOMAIN f |-> IF Tag(f[k]) = "dict" THEN PyDict(WithUnknown(Val(f[k]))) ELSE f[k]]
    @@ ("zz" :> PyStr("5"))

\* the dictionaries a caller passes: one of ArgDicts, the same with unknown
\* keys, or with an unknown group that holds the names of the model
Surplus(D) ==
    {D, WithUnknown(D), D @@ ("zz" :> PyDict(("a" :> PyStr("5")) @@ ("b" :> PyStr("5"))))}

\* model.validate_args(D, l, l, l) on such a dictionary
ValidateSurplus ==
    /\ pc \in {"init", "built"}
    /\ \E A \in ArgDicts(nodes, 1), l \in Levels :
        \E D \in Surplus(A) :
            LET Returns(a, r) ==
                    /\ call' = CallRecord(a.heap, a.val, <<l, l, l>>, r)
                    /\ heap' = r.heap
                Calls(a) == Returns(a, validate_args(nodes, a.heap, a.val, <<l, l, l>>))
            IN  Calls(Alloc(heap, PyDict(D)))
    /\ prev' = call
    /\ pc' = "validated"
    /\ UNCHANGED <<nodes, overlay, doc, extracted, loaded, lib_vars>>

NextSurplus ==
    \/ Add
    \/ AddGroup
    \/ ValidateSurplus

SpecSurplus == Init /\ [][NextSurplus]_vars

-----------------------------------------------------------------------------
(* Flattening a dictionary and building it again *)

\* the keys of the dictionaries flattened: one of them holds a ':'
FlatKeys == {"a", "b", "a:b"}
\* the dictionaries flattened: at any of the keys a value or a group's dictionary
FlatDicts == UNION {[K -> MergeValues \cup MergeGroups] : K \in SUBSET FlatKeys}

\* flatten_dict(d) on a dictionary the caller has just built
FlattenDict ==
    /\ pc = "init"
    /\ \E d \in FlatDicts :
            LET Flattened(a) ==
                    /\ heap' = a.heap
                    /\ flat' = [arg |-> a.val, arg_dict |-> Deref(a.heap, a.val),
                                tuples |-> flatten_dict(a.heap, a.val), strings |-> <<>>]
            IN  Flattened(Alloc(heap, PyDict(d)))
    /\ pc' = "flattened"
    /\ UNCHANGED <<nodes, call, prev, overlay, doc, extracted, loaded>>
    /\ UNCHANGED <<cl, directives, merged, default_args, made, checked, listed>>

\* override_args(d) on the same dictionary
OverrideOne ==
    /\ pc = "flattened"
    /\ \E order \in Orders(DOMAIN flatten_dict(heap, flat.arg)) :
            LET Returned1(r) ==
                    /\ heap' = r.heap
                    /\ merged' = [arg_dicts |-> <<Deref(heap, flat.arg)>>,
                                  exc |-> r.exc,
                                  res |-> Deref(r.heap, r.val),
                                  after |-> <<Deref(r.heap, flat.arg)>>]
            IN  Returned1(override_args(heap, <<flat.arg>>, order))
    /\ pc' = "merged"
    /\ UNCHANGED <<nodes, call, prev, overlay, doc, extracted, loaded>>
    /\ UNCHANGED <<cl, directives, default_args, made, checked, listed, flat>>

\* flatten_dict(d, as_string=True) on the same dictionary
FlattenAsString ==
    /\ pc = "merged"
    /\ \E order \in Orders(DOMAIN flatten_dict(heap, flat.arg)) :
            flat' = [flat EXCEPT !.strings = flatten_dict_as_string(heap, flat.arg, order)]
    /\ pc' = "joined"
    /\ UNCHANGED <<nodes, heap, call, prev, overlay, doc, extracted, loaded>>
    /\ UNCHANGED <<cl, directives, merged, default_args, made, checked, listed>>

NextFlatten ==
    \/ FlattenDict
    \/ OverrideOne
    \/ FlattenAsString

SpecFlatten == Init /\ [][NextFlatten]_vars

-----------------------------------------------------------------------------
(* Reading a validate_args call: its input, its output, what it did for    *)
(* each parameter                                                          *)

RECURSIVE Lookup(_, _)
\* where following the keys through the written-out dictionary d ends: at a
\* value ("found"), at a mapping without the next key ("absent"), or at a
\* value that is no mapping while keys remain ("wrongshape")
Lookup(d, keys) ==
    IF keys = <<>> THEN [kind |-> "found", val |-> d]
    ELSE IF Tag(d) # "dict" THEN [kind |-> "wrongshape", val |-> None]
    ELSE IF keys[1] \notin DOMAIN Val(d) THEN [kind |-> "absent", val |-> None]
    ELSE Lookup(Val(d)[keys[1]], Tail(keys))

Called == pc = "validated"
Returned == Called /\ call.status = "returned"
Params == list_parameters(nodes)
Lineage(i) == get_lineage(nodes, Params[i])
\* what the caller passed for the i-th parameter, and what the call returned for it
InputAt(i) == Lookup(call.input, Lineage(i))
OutputAt(i) == Lookup(Deref(heap, call.out), Lineage(i))
\* the loop came to the i-th parameter; it left the call there by an exception
Reached(i) == call.status = "returned" \/ i <= call.at
RaisedAt(i) == call.status # "returned" /\ call.at = i
Warned(kind, i) ==
    \E w \in 1..Len(call.warnings) :
        /\ call.warnings[w].kind = kind
        /\ call.warnings[w].name = JoinStr(Lineage(i), ":")
\* the loop came to the i-th parameter, which is param-like prm, and found a value
FoundFor(i) == Called /\ Reached(i) /\ InputAt(i).kind = "found"
\* the outcome of coercing what was found for the i-th parameter
CoercedAt(i) == Coerce(<<>>, nodes[Params[i]], InputAt(i).val)

-----------------------------------------------------------------------------
(* Missing arguments *)

\* C1: for a required parameter whose lineage is absent from the input, the
\* call goes on at enforce_required 0 and 1 (with a warning at 1) and, when
\* it returns, the output has no key at the lineage; at enforce_required 2 the
\* call raises ArgumentMissingError with param_name the lineage joined by ':'
RequiredMissingByLevel ==
    Called =>
        \A i \in 1..Len(Params) :
            (nodes[Params[i]].required /\ Reached(i) /\ InputAt(i).kind = "absent") =>
                CASE call.levels[1] = 0 ->
                        /\ ~RaisedAt(i)
                        /\ ~Warned("required", i)
                        /\ Returned => OutputAt(i).kind = "absent"
                  [] call.levels[1] = 1 ->
                        /\ ~RaisedAt(i)
                        /\ Warned("required", i)
                        /\ Returned => OutputAt(i).kind = "absent"
                  [] call.levels[1] = 2 ->
                        /\ RaisedAt(i)
                        /\ call.status = "ArgumentMissingError"
                        /\ call.param_name = JoinStr(Lineage(i), ":")

\* a required parameter of a group is missing from the group's dictionary, at
\* enforce_required 2: the error names the lineage a:b
RequiredMissingRaised ==
    /\ Called
    /\ call.levels[1] = 2
    /\ call.status = "ArgumentMissingError"
    /\ call.param_name = "a:b"
    /\ Lookup(call.input, <<"a">>).kind = "found"

\* C5: for a non-required parameter whose lineage is absent from the input,
\* a returning call's output holds the default at the lineage, and has no
\* entry at the lineage when the parameter has no default
DefaultOrNoEntry ==
    Returned =>
        \A i \in 1..Len(Params) :
            (~nodes[Params[i]].required /\ InputAt(i).kind = "absent") =>
                IF nodes[Params[i]].default = None
                THEN OutputAt(i).kind = "absent"
                ELSE OutputAt(i) = [kind |-> "found", val |-> nodes[Params[i]].default]

-----------------------------------------------------------------------------
(* Errors and enforcement levels *)

\* C6: with the three enforcement levels at 0 or 1, validate_args returns a
\* dictionary whatever the argument dictionary holds
NoErrorBelowLevelTwo ==
    (Called /\ \A l \in 1..3 : call.levels[l] \in {0, 1}) => call.status = "returned"

\* C8: a found value that cannot be coerced to the parameter's type is
\* stored as it is, silently at enforce_type 0 and with a warning at 1, and
\* at enforce_type 2 ArgumentTypeError is raised with the parameter and the
\* value (enforce_restrictions being 0, so that nothing else can happen)
UncoercibleByLevel ==
    \A i \in 1..Len(Params) :
        (FoundFor(i) /\ call.levels[3] = 0 /\ CoercedAt(i).exc # "") =>
            CASE call.levels[2] = 0 ->
                    /\ ~RaisedAt(i)
                    /\ ~Warned("type", i)
                    /\ Returned => OutputAt(i) = InputAt(i)
              [] call.levels[2] = 1 ->
                    /\ ~RaisedAt(i)
                    /\ Warned("type", i)
                    /\ Returned => OutputAt(i) = InputAt(i)
              [] call.levels[2] = 2 ->
                    /\ RaisedAt(i)
                    /\ call.status = "ArgumentTypeError"
                    /\ call.param = Params[i]
                    /\ Deref(heap, call.value) = InputAt(i).val

\* the value the restriction step of the i-th parameter sees
CheckedValue(i) == IF CoercedAt(i).exc = "" THEN CoercedAt(i).val ELSE InputAt(i).val
\* the loop came to the restriction step of the i-th parameter, which has a restriction
CheckedFor(i) ==
    /\ FoundFor(i)
    /\ nodes[Params[i]].restrictions.kind # "none"
    /\ CoercedAt(i).exc \in {"", "ValueError"}
    /\ ~(CoercedAt(i).exc = "ValueError" /\ call.levels[2] = 2)
    /\ RestrictionCheck(nodes[Params[i]].restrictions, CheckedValue(i)).exc = ""
PassesCheck(i) == RestrictionCheck(nodes[Params[i]].restrictions, CheckedValue(i)).val

\* C9: a value that fails the parameter's restriction is stored with no
\* warning at enforce_restrictions 0, stored with a warning at 1, and at 2
\* ArgumentRestrictionError is raised with the parameter and the value; a
\* value that passes is stored unchanged at every level
RestrictionByLevel ==
    \A i \in 1..Len(Params) :
        CheckedFor(i) =>
            IF PassesCheck(i)
            THEN /\ ~RaisedAt(i)
                 /\ ~Warned("restriction", i)
                 /\ Returned => OutputAt(i) = [kind |-> "found", val |-> CheckedValue(i)]
            ELSE CASE call.levels[3] = 0 ->
                        /\ ~RaisedAt(i)
                        /\ ~Warned("restriction", i)
                        /\ Returned => OutputAt(i) = [kind |-> "found", val |-> CheckedValue(i)]
                   [] call.levels[3] = 1 ->
                        /\ ~RaisedAt(i)
                        /\ Warned("restriction", i)
                        /\ Returned => OutputAt(i) = [kind |-> "found", val |-> CheckedValue(i)]
                   [] call.levels[3] = 2 ->
                        /\ RaisedAt(i)
                        /\ call.status = "ArgumentRestrictionError"
                        /\ call.param = Params[i]
                        /\ Deref(heap, call.value) = CheckedValue(i)

-----------------------------------------------------------------------------
(* Idempotence, the frame of validate_args, boolean coercion *)

\* C2: validating what validate_args returned at levels 0 returns again, and
\* returns an equal dictionary
ValidateIdempotent ==
    (Called /\ prev # NoCall) =>
        /\ call.status = "returned"
        /\ Deref(heap, call.out) = Deref(heap, prev.out)

\* C7: after a validate_args call, returning or raising, the input
\* dictionary with everything nested in it is what it was before the call,
\* and the dictionary returned is a mapping object that did not exist before
InputNotMutated ==
    Called =>
        /\ Deref(heap, call.args) = call.input
        /\ prev # NoCall => Deref(heap, prev.args) = prev.input
        /\ Returned => (Tag(call.out) = "ref" /\ Val(call.out) > call.objects)

\* a call returned a dictionary holding values and a mapping object of the
\* input itself (a nested mapping passed for a list parameter)
InputObjectShared ==
    /\ Returned
    /\ Tag(call.args) = "ref"
    /\ \E k \in DOMAIN heap[Val(call.out)], j \in DOMAIN heap[Val(call.args)] :
            /\ Tag(heap[Val(call.out)][k]) = "ref"
            /\ heap[Val(call.out)][k] = heap[Val(call.args)][j]
    /\ Cardinality(DOMAIN heap[Val(call.out)]) > 1

\* C10: for a boolean parameter a string is coerced to True exactly when it
\* is "true", "True" or "1", and to False otherwise ("false" included)
BooleanCoercion ==
    \A i \in 1..Len(Params) :
        (FoundFor(i) /\ nodes[Params[i]].type = "bool" /\ ~nodes[Params[i]].is_list
                /\ Tag(InputAt(i).val) = "str") =>
            /\ ~RaisedAt(i)
            /\ Returned =>
                    OutputAt(i) = [kind |-> "found",
                                   val |-> PyBool(InputAt(i).val[2] \in {"true", "True", "1"})]

\* a call returned False for the string "false" and True for the string "1"
FalseStringIsFalse ==
    /\ Returned
    /\ \E i, j \in 1..Len(Params) :
            /\ nodes[Params[i]].type = "bool" /\ nodes[Params[j]].type = "bool"
            /\ InputAt(i) = [kind |-> "found", val |-> PyStr("false")]
            /\ OutputAt(i) = [kind |-> "found", val |-> PyBool(FALSE)]
            /\ InputAt(j) = [kind |-> "found", val |-> PyStr("1")]
            /\ OutputAt(j) = [kind |-> "found", val |-> PyBool(TRUE)]

-----------------------------------------------------------------------------
(* Round trips through a CTD document *)

\* C3: when a dictionary D was validated with everything enforced, the
\* result was written as the overlay of the model's document, and the values
\* extracted from the document were validated again, the call returns and
\* gives, for every parameter D had a value for, the value the first
\* validation gave
ValueRoundTrip ==
    (pc = "revalidated" /\ overlay # None /\ prev.levels = <<2, 2, 2>>) =>
        /\ call.status = "returned"
        /\ \A i \in 1..Len(Params) :
                Lookup(prev.input, Lineage(i)).kind = "found" =>
                    OutputAt(i) = Lookup(Deref(heap, prev.out), Lineage(i))

\* what the schema round trip is to preserve of parameter a of objects ns
Schema(ns, a) ==
    [lineage |-> get_lineage(ns, a), type |-> ns[a].type, is_list |-> ns[a].is_list,
     default |-> ns[a].default]

\* C4: the model loaded from the document write_ctd wrote for a model (no
\* overlay) lists the same parameters: as many, in the same order, each with
\* the same lineage, type, list-ness and default, and get_defaults() agree
SchemaRoundTrip ==
    (pc = "loaded" /\ overlay = None) =>
        /\ loaded.exc = ""
        /\ loaded.nodes # <<>>
        /\ Len(list_parameters(loaded.nodes)) = Len(Params)
        /\ \A i \in 1..Len(Params) :
                Schema(loaded.nodes, list_parameters(loaded.nodes)[i]) = Schema(nodes, Params[i])
        /\ get_defaults(loaded.nodes) = get_defaults(nodes)

-----------------------------------------------------------------------------
(* Command lines *)

\* the flag parse_cl_args is to register for the i-th parameter
FlagOf(i) == Prefix \o JoinStr(Lineage(i), ":")
\* what parse_cl_args returned for the i-th parameter
ParsedAt(i) == Lookup(cl.res, Lineage(i))
\* parse_cl_args returned
ParsedArgs == pc = "parsed" /\ cl.exc = ""

\* C11: when parse_cl_args returns, the dictionary has no entry at the
\* lineage of a parameter, boolean or not, whose flag is not among the tokens
AbsentFlagNoEntry ==
    ParsedArgs =>
        \A i \in 1..Len(Params) :
            (\A t \in 1..Len(cl.argv) : cl.argv[t] # FlagOf(i)) =>
                ParsedAt(i).kind # "found"

RECURSIVE Descend(_, _, _)
\* the object the names q lead to from object g, each name a key of the
\* group reached so far; 0 when they lead nowhere
Descend(ns, g, q) ==
    IF q = <<>> THEN g
    ELSE IF ns[g].kind # "group" THEN 0
    ELSE IF KeyIndex(ns[g].parameters, q[1]) = 0 THEN 0
    ELSE Descend(ns, ns[g].parameters[KeyIndex(ns[g].parameters, q[1])][2], Tail(q))

RECURSIVE ValueRun(_, _)
\* the values given from token t on: the tokens up to the first that starts
\* with '-' and is no number
ValueRun(argv, t) ==
    IF t > Len(argv) THEN <<>>
    ELSE IF argv[t] \notin Words \cup NegativeNumbers THEN <<>>
    ELSE <<PyStr(argv[t])>> \o ValueRun(argv, t + 1)

\* token t is the flag of the i-th parameter, a value follows it, and no
\* other token is that flag or the beginning of it
GivenAt(i, t) ==
    /\ t < Len(cl.argv)
    /\ cl.argv[t] = FlagOf(i)
    /\ ValueRun(cl.argv, t + 1) # <<>>
    /\ \A u \in 1..Len(cl.argv) :
            u # t => (cl.argv[u] # FlagOf(i) /\ ~Abbreviates(cl.argv[u], FlagOf(i)))

\* C12: the lineage of every parameter is the list of names that leads to it
\* from the root group, the root's own name left out; and when parse_cl_args
\* returns for a command line that gives a value after the flag prefix +
\* ':'.join(lineage) of a parameter that takes values, the dictionary holds at
\* that lineage the value as the string it was given (the list of the
\* strings given, for a list parameter)
LineageKeys ==
    pc = "parsed" =>
        \A i \in 1..Len(Params) :
            /\ Lineage(i) # <<>>
            /\ Descend(nodes, 1, Lineage(i)) = Params[i]
            /\ \A t \in 1..Len(cl.argv) :
                    (cl.exc = "" /\ nodes[Params[i]].type # "bool" /\ GivenAt(i, t)) =>
                        ParsedAt(i) =
                            [kind |-> "found",
                             val |-> IF nodes[Params[i]].is_list
                                     THEN PyList(ValueRun(cl.argv, t + 1))
                                     ELSE ValueRun(cl.argv, t + 1)[1]]

-----------------------------------------------------------------------------
(* override_args *)

\* the key paths of the dictionaries merged
MergePaths == UNION {[1..n -> MergeKeys] : n \in 1..2}
\* the written-out dictionary d has a value that is no mapping at key path k
LeafAt(d, k) == Lookup(d, k).kind = "found" /\ Tag(Lookup(d, k).val) # "dict"
\* the last of the dictionaries merged that has a leaf at k
LastWith(k) ==
    CHOOSE i \in 1..Len(merged.arg_dicts) :
        /\ LeafAt(merged.arg_dicts[i], k)
        /\ \A j \in (i + 1)..Len(merged.arg_dicts) : ~LeafAt(merged.arg_dicts[j], k)

\* C13: override_args returns a dictionary that holds, at every leaf key path
\* of one of its arguments, the value of the last argument that has the path,
\* and has no leaf key path that none of them has; the arguments are after
\* the call what they were before
RightmostWins ==
    merged.exc # "none" =>
        /\ merged.exc = ""
        /\ \A k \in MergePaths :
                IF \E i \in 1..Len(merged.arg_dicts) : LeafAt(merged.arg_dicts[i], k)
                THEN Lookup(merged.res, k) = Lookup(merged.arg_dicts[LastWith(k)], k)
                ELSE ~LeafAt(merged.res, k)
        /\ merged.after = merged.arg_dicts

-----------------------------------------------------------------------------
(* get_defaults *)

\* what get_defaults returned for the i-th parameter
DefaultAt(i) == Lookup(default_args, Lineage(i))

\* C14: get_defaults returns a dictionary that holds, for every parameter
\* with a default, the default at the parameter's lineage, and that has no
\* entry at the lineage of a parameter without default
DefaultsAtLineage ==
    pc = "defaults" =>
        /\ Tag(default_args) = "dict"
        /\ \A i \in 1..Len(Params) :
                IF nodes[Params[i]].default # None
                THEN DefaultAt(i) = [kind |-> "found", val |-> nodes[Params[i]].default]
                ELSE DefaultAt(i).kind = "absent"

\* get_defaults was called on a model with a group that holds a parameter
\* with a default, and returned the default inside the group's dictionary
NestedDefaultReturned ==
    /\ pc = "defaults"
    /\ \E i \in 1..Len(Params) :
            /\ Len(Lineage(i)) = 2
            /\ DefaultAt(i) = [kind |-> "found", val |-> PyInt(5)]
            /\ Lookup(default_args, <<Lineage(i)[1]>>).kind = "found"

-----------------------------------------------------------------------------
(* parse_cl_directives *)

\* the keys of the dictionary parse_cl_directives returns, in the order of
\* the three directive names
DirectiveKeys == <<"write_tool_ctd", "write_param_ctd", "input_ctd">>

\* the positions of the flag of the k-th directive on the command line
FlagAt(k) == {t \in 1..Len(directives.argv) : directives.argv[t] = Prefix \o directives.names[k]}

\* what the k-th directive is to resolve to, its flag being given at most once
Resolved(k) ==
    IF FlagAt(k) = {} THEN None
    ELSE IF ValueRun(directives.argv, (CHOOSE t \in FlagAt(k) : TRUE) + 1) = <<>>
    THEN PyBool(TRUE)
    ELSE ValueRun(directives.argv, (CHOOSE t \in FlagAt(k) : TRUE) + 1)[1]

\* C15: on a command line that gives each directive flag at most once (and
\* no flag cut short), parse_cl_directives returns a dictionary with exactly
\* the keys write_tool_ctd, write_param_ctd and input_ctd, whatever the flags
\* are called, and each holds None when its flag is absent, True when the
\* flag has no value, and the file name when it has one
DirectivesResolved ==
    (/\ directives.exc # "none"
     /\ \A k \in 1..3 : Cardinality(FlagAt(k)) <= 1
     /\ \A t \in 1..Len(directives.argv) : directives.argv[t] # "--input") =>
        /\ directives.exc = ""
        /\ Tag(directives.val) = "dict"
        /\ DOMAIN Val(directives.val) = {DirectiveKeys[k] : k \in 1..3}
        /\ \A k \in 1..3 : Val(directives.val)[DirectiveKeys[k]] = Resolved(k)

-----------------------------------------------------------------------------
(* Invariants of a Parameter *)

\* the constructor was called with a boolean type
BooleanMade ==
    /\ made.exc # "none"
    /\ CTDTYPE_TO_TYPE(KwGet(made.kwargs, "type", "str")) = "bool"

\* C16: a Parameter constructed with a boolean type is constructed (the call
\* does not fail) and has required = False, is_list = False and default =
\* False, whatever required, is_list and default the caller gave
BooleanForced ==
    BooleanMade =>
        /\ made.exc = ""
        /\ made.node.required = FALSE
        /\ made.node.is_list = FALSE
        /\ made.node.default = PyBool(FALSE)

\* C17: every parameter of a model built with add and add_group that has
\* required = True has no stored default
RequiredNoDefault ==
    \A p \in 1..Len(nodes) :
        (nodes[p].kind = "param" /\ nodes[p].required) => nodes[p].default = None

-----------------------------------------------------------------------------
(* Restrictions *)

\* the file names that end in the compound extension fastq.gz, and one that
\* ends in none of the extensions
CompoundNames == {PyStr("a.fastq.gz")}
OtherNames == {PyStr("a.txt")}

\* C18: a file name ending in the compound extension fastq.gz is accepted by
\* the FileFormat of 'fastq.gz' and rejected by the FileFormat of the bare
\* 'gz'; a file name ending in neither is rejected by both
CompoundExtension ==
    (checked.exc # "none" /\ checked.restrictions.kind = "file_formats") =>
        /\ (checked.value \in CompoundNames /\ checked.restrictions.formats = <<"fastq.gz">>) =>
                (checked.exc = "" /\ checked.val)
        /\ (checked.value \in CompoundNames /\ checked.restrictions.formats = <<"gz">>) =>
                (checked.exc = "" /\ ~checked.val)
        /\ (checked.value \in OtherNames
                /\ checked.restrictions.formats \in {<<"fastq.gz">>, <<"gz">>}) =>
                (checked.exc = "" /\ ~checked.val)

\* a numeric range was checked against a number
NumberChecked ==
    /\ checked.exc # "none"
    /\ checked.restrictions.kind = "num_range"
    /\ IsNumber(checked.value)

\* C19: the check of a number v against a numeric range returns true exactly
\* when (min is absent or v >= min) and (max is absent or v <= max), min and
\* max being the bounds the range holds; so the bounds themselves are
\* accepted (when min is not above max), and with max absent so is every
\* value from min on
InclusiveRange ==
    NumberChecked =>
        /\ checked.exc = ""
        /\ checked.val <=>
                /\ checked.restrictions.n_min = None
                        \/ Tenths(checked.value) >= Tenths(checked.restrictions.n_min)
                /\ checked.restrictions.n_max = None
                        \/ Tenths(checked.value) <= Tenths(checked.restrictions.n_max)
        /\ (/\ checked.value \in {checked.restrictions.n_min, checked.restrictions.n_max}
            /\ \/ None \in {checked.restrictions.n_min, checked.restrictions.n_max}
               \/ Tenths(checked.restrictions.n_min) <= Tenths(checked.restrictions.n_max))
                => checked.val

\* an upper bound was checked against a range that has both bounds, and accepted
BoundAccepted ==
    /\ NumberChecked
    /\ checked.restrictions.n_min # None
    /\ checked.restrictions.n_max # None
    /\ checked.restrictions.n_min # checked.restrictions.n_max
    /\ checked.value = checked.restrictions.n_max
    /\ checked.val

\* the single-value check of the restriction checked returns true for e
SingleTrue(e) ==
    /\ SingleCheck(checked.restrictions, e).exc = ""
    /\ SingleCheck(checked.restrictions, e).val

\* C20: for each of the three restriction classes the check of a list
\* returns true exactly when the single-value check returns true for every
\* element of the list, and so it returns true for the empty list
ElementWise ==
    (checked.exc # "none" /\ Tag(checked.value) = "list") =>
        /\ (checked.exc = "" /\ checked.val) <=>
                \A i \in 1..Len(Val(checked.value)) : SingleTrue(Val(checked.value)[i])
        /\ checked.value = PyList(<<>>) => (checked.exc = "" /\ checked.val)

\* a list was rejected whose first element passes the single-value check
\* and whose second does not
SecondElementRejected ==
    /\ checked.exc = ""
    /\ Tag(checked.value) = "list"
    /\ Len(Val(checked.value)) = 2
    /\ SingleTrue(Val(checked.value)[1])
    /\ ~SingleTrue(Val(checked.value)[2])
    /\ ~checked.val

(* C21: loading a leaf whose restrictions attribute cannot be classified   *)
(* (neither ',' nor ':'), is a colon form of more than two fields, or is a *)
(* range whose bounds cannot be coerced to the numeric type, fails with    *)
(* ModelParsingError and registers no parameter.                           *)

\* the leaf of the document loaded
LoadedLeaf == doc.tree.children[1].children[1].children[1].children[1]

\* the restrictions attribute of a leaf cannot give a restriction
Malformed(leaf) ==
    LET Bad(type, r) ==
            \/ ~Contains(r, ",") /\ ~Contains(r, ":")
            \/ ~Contains(r, ",") /\ Len(Split(r, ":")) > 2
            \/ /\ ~Contains(r, ",") /\ Len(Split(r, ":")) = 2
               /\ type \in {"int", "float"}
               /\ \E i \in 1..2 : /\ Split(r, ":")[i] # ""
                                  /\ TypeCall(type, PyStr(Split(r, ":")[i])).exc # ""
    IN  /\ "restrictions" \in DOMAIN leaf.attrib
        /\ Bad(CTDTYPE_TO_TYPE(leaf.attrib["type"]), leaf.attrib["restrictions"])

RestrictionErrors ==
    (pc = "loaded" /\ Malformed(LoadedLeaf)) =>
        /\ loaded.exc = "ModelParsingError"
        /\ \A i \in 1..Len(loaded.nodes) : loaded.nodes[i].kind # "param"

(* C22: after any add and add_group calls a group has at most one child    *)
(* per name, the child being the object the most recent call with that     *)
(* name on the group registered; no call is rejected; list_parameters()    *)
(* yields no parameter that was replaced or lies under a replaced group.   *)

\* the objects the calls on group g with the name made, in call order
MadeFor(g, name) == {i \in 2..Len(nodes) : nodes[i].parent = g /\ nodes[i].name = name}

RECURSIVE Attached(_)
\* object i is the root group, or the child its parent holds under its name,
\* the parent being attached too
Attached(i) ==
    \/ i = 1
    \/ /\ \E k \in 1..Len(nodes[nodes[i].parent].parameters) :
                nodes[nodes[i].parent].parameters[k] = <<nodes[i].name, i>>
       /\ Attached(nodes[i].parent)

OneChildPerName ==
    /\ made.exc \in {"none", ""}
    /\ \A g \in Groups(nodes) :
            LET od == nodes[g].parameters
            IN  /\ \A i, j \in 1..Len(od) : od[i][1] = od[j][1] => i = j
                /\ \A name \in Names :
                        IF MadeFor(g, name) = {} THEN KeyIndex(od, name) = 0
                        ELSE /\ KeyIndex(od, name) # 0
                             /\ \A i \in MadeFor(g, name) :
                                    i <= od[KeyIndex(od, name)][2]
                             /\ od[KeyIndex(od, name)][2] \in MadeFor(g, name)
    /\ \A i \in 1..Len(list_parameters(nodes)) :
            /\ Attached(list_parameters(nodes)[i])
            /\ \A j \in 1..Len(list_parameters(nodes)) :
                    list_parameters(nodes)[i] = list_parameters(nodes)[j] => i = j
    /\ \A i \in 2..Len(nodes) :
            (nodes[i].kind = "param" /\ Attached(i)) =>
                \E k \in 1..Len(list_parameters(nodes)) : list_parameters(nodes)[k] = i

\* a group with a parameter in it was replaced by a parameter of its name
\* while another parameter is listed
GroupReplaced ==
    \E g \in Groups(nodes) \ {1}, p \in 2..Len(nodes) :
        /\ ~Attached(g)
        /\ nodes[p].kind = "param" /\ nodes[p].parent = g
        /\ Len(list_parameters(nodes)) = 1
        /\ nodes[list_parameters(nodes)[1]].name = nodes[g].name

(* C23: validate_args, get_defaults, list_parameters, parse_cl_args and    *)
(* generate_ctd_tree, returning or raising, and in any sequence, leave the *)
(* parameter tree as it was: the children of every group and their order,  *)
(* the parent links, and type, required, is_list, default and restriction  *)
(* of every parameter.                                                     *)

\* the step is one of the read operations, or the program going on after one
ReadStep == pc' # "built" \/ pc \notin {"init", "built"}

RECURSIVE PlaceOf(_)
\* where object i hangs: the position of each ancestor, and of i, among its
\* parent's children
PlaceOf(i) ==
    IF i = 1 THEN <<>>
    ELSE PlaceOf(nodes[i].parent)
         \o <<KeyIndex(nodes[nodes[i].parent].parameters, nodes[i].name)>>

\* a pre-order walk comes to parameter p before parameter q
Before(p, q) ==
    \E k \in 1..Len(PlaceOf(p)) :
        /\ k <= Len(PlaceOf(q))
        /\ \A j \in 1..(k - 1) : PlaceOf(p)[j] = PlaceOf(q)[j]
        /\ PlaceOf(p)[k] < PlaceOf(q)[k]

\* what the caller passed for the i-th parameter breaks a rule: a required
\* argument is missing, the value does not lie where the lineage leads, it
\* cannot be cast, or it fails the restriction
Violating(i) ==
    LET Fails(chk) == chk.exc # "" \/ ~chk.val
    IN  \/ InputAt(i).kind = "absent" /\ nodes[Params[i]].required
        \/ InputAt(i).kind = "wrongshape"
        \/ /\ InputAt(i).kind = "found"
           /\ \/ CoercedAt(i).exc # ""
              \/ /\ nodes[Params[i]].restrictions.kind # "none"
                 /\ Fails(RestrictionCheck(nodes[Params[i]].restrictions, CheckedValue(i)))

\* the position in all_params of the parameter a warning names
WarnedAt(w) == CHOOSE i \in 1..Len(Params) : JoinStr(Lineage(i), ":") = call.warnings[w].name

\* the dictionary the call was filling, at the lineage of the i-th parameter
FilledAt(i) == Lookup(Deref(heap, Ref(call.objects + 1)), Lineage(i))

ValidationOrder ==
    /\ \A i \in 2..Len(nodes) :
            (nodes[i].kind = "param" /\ Attached(i)) <=> \E k \in 1..Len(Params) : Params[k] = i
    /\ \A k, l \in 1..Len(Params) : k < l => Before(Params[k], Params[l])
    /\ Called =>
        /\ \A v, w \in 1..Len(call.warnings) :
                v < w => \/ WarnedAt(v) < WarnedAt(w)
                         \/ /\ WarnedAt(v) = WarnedAt(w)
                            /\ call.warnings[v].kind = "type"
                            /\ call.warnings[w].kind = "restriction"
        /\ call.levels = <<2, 2, 2>> =>
                IF \E i \in 1..Len(Params) : Violating(i)
                THEN /\ call.status # "returned"
                     /\ call.out = None
                     /\ Violating(call.at)
                     /\ \A j \in 1..(call.at - 1) : ~Violating(j) /\ FilledAt(j).kind = "found"
                     /\ \A j \in (call.at + 1)..Len(Params) : FilledAt(j).kind # "found"
                ELSE Returned
        /\ \A i \in 1..Len(Params) :
                (FoundFor(i) /\ CoercedAt(i).exc = "ValueError") =>
                    CASE call.levels[2] = 2 ->
                            RaisedAt(i) /\ call.status = "ArgumentTypeError"
                      [] call.levels[2] = 1 ->
                            /\ Warned("type", i)
                            /\ ~(RaisedAt(i) /\ call.status = "ArgumentTypeError")
                      [] OTHER -> TRUE

\* with everything enforced the call raised for the parameter of a group,
\* made after the parameter that follows it, both with a value of the wrong
\* type that also fails the restriction
RaisedAtFirstOfTwo ==
    /\ Called /\ call.levels = <<2, 2, 2>>
    /\ Len(Params) = 2 /\ Params[1] > Params[2] /\ nodes[Params[1]].parent # 1
    /\ \A i \in 1..2 :
            /\ InputAt(i).kind = "found" /\ CoercedAt(i).exc = "ValueError"
            /\ ~RestrictionCheck(nodes[Params[i]].restrictions, CheckedValue(i)).val
    /\ RaisedAt(1) /\ call.status = "ArgumentTypeError"

-----------------------------------------------------------------------------
(* Serialization with an overlay *)

RECURSIVE ElementsOf(_)
\* the elements of a tree
ElementsOf(el) == {el} \cup UNION {ElementsOf(el.children[i]) : i \in 1..Len(el.children)}

\* what the overlay written holds at the lineage of parameter i
OverlayAt(i) == Lookup(Deref(heap, overlay), get_lineage(nodes, i))

\* the attached parameters of the model
AttachedParams == {i \in 2..Len(nodes) : nodes[i].kind = "param" /\ Attached(i)}

\* the ITEM or ITEMLIST of parameter i for the value v: what _xml_node makes
\* of a parameter that has v as its stored default, without overlay
NodeFor(i, v) == ParameterXmlNode([nodes EXCEPT ![i].default = v], i, heap, None).el

\* write_ctd fails for a reason other than the lookup: the restriction string
\* of a vocabulary of numbers (C9), or a list value that cannot be iterated
OtherWriteFailure ==
    \E i \in AttachedParams :
        \/ /\ nodes[i].restrictions.kind # "none"
           /\ ctd_restriction_string(nodes[i].restrictions).exc # ""
        \/ /\ nodes[i].is_list
           /\ OverlayAt(i).kind = "found"
           /\ OverlayAt(i).val # None
           /\ Iter(OverlayAt(i).val).exc # ""

\* C25: a document written with an overlay holds, for every parameter, the
\* ITEM or ITEMLIST of the overlay's value at the parameter's lineage when the
\* overlay has one, and of the stored default when the lookup misses: a
\* missing leaf key, a missing group key, or a non-mapping where a group is
\* expected; a value that is absent gives value="" for a scalar and no
\* LISTITEM for a list
OverlayLookup ==
    (pc = "written" /\ overlay # None /\ ~OtherWriteFailure) =>
        /\ doc.exc = ""
        /\ \A i \in AttachedParams :
                LET Emitted(v) ==
                        /\ NodeFor(i, v) \in ElementsOf(doc.tree)
                        /\ (v = None /\ ~nodes[i].is_list) => NodeFor(i, v).attrib["value"] = ""
                        /\ (v = None /\ nodes[i].is_list) => NodeFor(i, v).children = <<>>
                IN  Emitted(IF OverlayAt(i).kind = "found" THEN OverlayAt(i).val
                            ELSE nodes[i].default)

-----------------------------------------------------------------------------
(* A missing required value, written and read back *)

\* parameter i is required and the overlay written has no value for it
MissingInOverlay(i) ==
    /\ i \in AttachedParams
    /\ nodes[i].required
    /\ nodes[i].default = None
    /\ OverlayAt(i).kind = "absent" \/ OverlayAt(i).val = None

\* C26: after write_ctd(file, D), args_from_file(file) and validate_args of
\* the dictionary read with enforce_required=2, a required parameter (scalar
\* or list) without a value in D has no entry in the dictionary read, and the
\* call raised ArgumentMissingError: for that parameter when it is the only
\* one of the model
MissingRequiredKept ==
    (pc = "revalidated" /\ overlay # None /\ call.levels = <<2, 0, 0>>) =>
        \A i \in 2..Len(nodes) :
            MissingInOverlay(i) =>
                /\ Lookup(extracted.val, get_lineage(nodes, i)).kind = "absent"
                /\ call.status = "ArgumentMissingError"
                /\ AttachedParams = {i} => call.param = i

-----------------------------------------------------------------------------
(* Restriction strings *)

\* the attached parameters that have a restriction
Restricted == {i \in AttachedParams : nodes[i].restrictions.kind # "none"}

\* the values the restrictions of the model are asked about
RoundValues ==
    {PyInt(n) : n \in (0 - 1)..MaxInt} \cup {PyStr("a"), PyStr("b"), PyStr("")}
    \cup {PyStr("a.txt"), PyStr("b.gz"), PyStr("a.fastq")}

\* C27: the restriction of every parameter has a restriction string, and a
\* model loaded from the document written has, for the parameter of that
\* name, a restriction of the same variant that accepts the same values
RestrictionRoundTrip ==
    /\ pc \in {"written", "loaded"} =>
            \A i \in Restricted : ctd_restriction_string(nodes[i].restrictions).exc = ""
    /\ (pc = "loaded" /\ doc.exc = "") =>
            /\ loaded.exc = ""
            /\ \A i \in Restricted : \E j \in 1..Len(loaded.nodes) :
                    /\ loaded.nodes[j].kind = "param"
                    /\ loaded.nodes[j].name = nodes[i].name
                    /\ loaded.nodes[j].restrictions.kind = nodes[i].restrictions.kind
                    /\ \A v \in RoundValues :
                            RestrictionCheck(loaded.nodes[j].restrictions, v)
                                = RestrictionCheck(nodes[i].restrictions, v)

-----------------------------------------------------------------------------
(* Booleans in a document *)

\* C28: for a boolean parameter whose overlay value is a boolean or a string,
\* the document written holds the ITEM with value="true" when CAST_BOOLEAN
\* makes the value True and with value="false" when it makes it False
BooleanSerialization ==
    (pc = "written" /\ overlay # None /\ doc.exc = "") =>
        \A i \in AttachedParams :
            (/\ nodes[i].type = "bool"
             /\ OverlayAt(i).kind = "found"
             /\ Tag(OverlayAt(i).val) \in {"bool", "str"}) =>
                NodeFor(i, CAST_BOOLEAN(OverlayAt(i).val)) \in ElementsOf(doc.tree)

-----------------------------------------------------------------------------
(* The dictionary validate_args returns and the schema *)

RECURSIVE LeafPathsOf(_, _)
\* the key paths of dictionary d, reached through the keys level, that end at
\* a value that is no mapping
LeafPathsOf(d, level) ==
    UNION {IF Tag(Val(d)[k]) = "dict" THEN LeafPathsOf(Val(d)[k], Append(level, k))
           ELSE {Append(level, k)} : k \in DOMAIN Val(d)}

\* the lineages of the parameters of the model
Lineages == {get_lineage(nodes, Params[i]) : i \in 1..Len(Params)}

\* C29: every leaf key path of the dictionary validate_args returned is the
\* lineage of a parameter of the model: no entry of the input that matches no
\* lineage is in it, and it has at most one entry per parameter
OutputConfined ==
    Returned =>
        LET Confined(paths) ==
                /\ paths \subseteq Lineages
                /\ (LeafPathsOf(call.input, <<>>) \ Lineages) \cap paths = {}
                /\ Cardinality(paths) <= Len(Params)
        IN  Confined(LeafPathsOf(Deref(heap, call.out), <<>>))

-----------------------------------------------------------------------------
(* Flatten and unflatten *)

\* C30: for every nested dictionary d, with or without empty sub-mappings,
\* override_args(d) returns a dictionary equal to d; flatten_dict(d,
\* as_string=True) has one key for each key tuple of flatten_dict(d), the
\* tuple joined by ':', with the value the tuple has
FlattenIdentity ==
    /\ pc \in {"merged", "joined"} =>
            /\ merged.exc = ""
            /\ merged.res = flat.arg_dict
    /\ pc = "joined" =>
            /\ DOMAIN flat.strings = {JoinStr(keylist, ":") : keylist \in DOMAIN flat.tuples}
            /\ Cardinality(DOMAIN flat.strings) = Cardinality(DOMAIN flat.tuples)
            /\ \A keylist \in DOMAIN flat.tuples :
                    flat.strings[JoinStr(keylist, ":")] = flat.tuples[keylist]

====
